---- MODULE Spec2Model ----
(***************************************************************************)
(* A model of src/app.py: the candidate detector (detect_candidates and    *)
(* its helpers), the preference store (db_add_score / db_get_scores), the  *)
(* suggestion ranker (rank_suggestions) and the replacement applier        *)
(* (preserve_casing, apply_replacements, the /apply handler).              *)
(*                                                                         *)
(* A Python str is a sequence of characters.  An ASCII character is the    *)
(* one-character string that holds it; a character outside ASCII is named  *)
(* by its code point ("U+0130" is the capital dotted I).                   *)
(***************************************************************************)
EXTENDS Integers, Sequences, FiniteSets, TLC

VARIABLES
    FOREIGN_TERMS, \* the lexicon, as read at import (src/app.py:133)
    SUGGESTIONS, \* the suggestion dictionary, as read at import (src/app.py:132)
    text,        \* detection / apply: the request's text
    whitelist,   \* detection / apply: the loaded WHITELIST (src/app.py:134)
    results,     \* detection: level -> list of candidates, or NotRun
    prefs,       \* the prefs table: key -> score, the rows present are its domain
    prefs0,      \* the table as it was before the calls being observed
    calls,       \* store: per caller, the db_add_score call in progress
    submitted,   \* store: key -> the sum of the deltas of the calls that succeeded
    made,        \* store: the number of calls made so far
    lock,        \* store: the caller holding SQLite's write lock, or NoCaller
    original,    \* casing: preserve_casing's first argument
    suggestion,  \* casing: preserve_casing's second argument
    cased,       \* casing: preserve_casing's result, or NotRun
    choices,     \* apply: the request's list of choices
    response,    \* handlers: the handler's response, or NotRun
    request,     \* handlers: the request being served and how far the handler is
    base_suggestions, \* ranking: the base suggestion list
    ranked       \* ranking: rank_suggestions' result, or NotRun

vars == <<FOREIGN_TERMS, SUGGESTIONS, text, whitelist, results, prefs, prefs0, calls, submitted, made, lock,
          original, suggestion, cased, choices, response, request,
          base_suggestions, ranked>>

\* the value of a result that is not there yet
NotRun == [ran |-> FALSE, value |-> <<>>]
Ran(v) == [ran |-> TRUE, value |-> v]
NoCaller == 0
\* no request received yet
NoRequest == [pc |-> "none", op |-> "none", level |-> "none", cands |-> <<>>,
              items |-> <<>>, k |-> 0, j |-> 0, score |-> 0, replacements |-> <<>>]

(***************************************************************************)
(* Characters                                                              *)
(***************************************************************************)
AsciiUpper == <<"A","B","C","D","E","F","G","H","I","J","K","L","M",
                "N","O","P","Q","R","S","T","U","V","W","X","Y","Z">>
AsciiLower == <<"a","b","c","d","e","f","g","h","i","j","k","l","m",
                "n","o","p","q","r","s","t","u","v","w","x","y","z">>
\* C-cedilla, G-breve, dotted I, O-umlaut, S-cedilla, U-umlaut (capitals)
TrUpper == <<"U+00C7","U+011E","U+0130","U+00D6","U+015E","U+00DC">>
\* c-cedilla, g-breve, dotless i, o-umlaut, s-cedilla, u-umlaut (small)
TrLower == <<"U+00E7","U+011F","U+0131","U+00F6","U+015F","U+00FC">>
DottedI == "U+0130"
DotlessI == "U+0131"
CombDot == "U+0307"
RQuote == "U+2019"
Digits == {"0","1","2","3","4","5","6","7","8","9"}

Range(s) == {s[i] : i \in 1..Len(s)}
Min(S) == CHOOSE x \in S : \A y \in S : x <= y
Max(S) == CHOOSE x \in S : \A y \in S : y <= x
IndexOf(c, s) == CHOOSE i \in 1..Len(s) : s[i] = c

\* the Kelvin sign and the long s, which re.IGNORECASE equates with k and s
KelvinSign == "U+212A"
LongS == "U+017F"

UpperChars == Range(AsciiUpper) \cup Range(TrUpper)
LowerChars == Range(AsciiLower) \cup Range(TrLower)
Letters == UpperChars \cup LowerChars

(***************************************************************************)
(* Characters outside the 64 letters of TOKEN_RE.  The tables below hold   *)
(* what str.lower, str.upper, str.isupper and the class \w do on the code  *)
(* points U+0080..U+017F (Latin-1 Supplement, Latin Extended-A),           *)
(* U+01C4..U+01CC, the Greek and Cyrillic basic letters, the Arabic-Indic  *)
(* digits, the ligatures U+FB00..U+FB06 and U+02BC, U+0307, U+0345,        *)
(* U+1E9E, U+2019, U+212A, U+212B, U+4E2D: the characters texts of the     *)
(* model are made of, with ASCII, the 64 letters and the spaces.           *)
(***************************************************************************)
\* <<c, c.lower()>> for the characters that str.lower() changes
OtherLower == <<<<"U+00C0", <<"U+00E0">>>>, <<"U+00C1", <<"U+00E1">>>>,
    <<"U+00C2", <<"U+00E2">>>>, <<"U+00C3", <<"U+00E3">>>>,
    <<"U+00C4", <<"U+00E4">>>>, <<"U+00C5", <<"U+00E5">>>>,
    <<"U+00C6", <<"U+00E6">>>>, <<"U+00C8", <<"U+00E8">>>>,
    <<"U+00C9", <<"U+00E9">>>>, <<"U+00CA", <<"U+00EA">>>>,
    <<"U+00CB", <<"U+00EB">>>>, <<"U+00CC", <<"U+00EC">>>>,
    <<"U+00CD", <<"U+00ED">>>>, <<"U+00CE", <<"U+00EE">>>>,
    <<"U+00CF", <<"U+00EF">>>>, <<"U+00D0", <<"U+00F0">>>>,
    <<"U+00D1", <<"U+00F1">>>>, <<"U+00D2", <<"U+00F2">>>>,
    <<"U+00D3", <<"U+00F3">>>>, <<"U+00D4", <<"U+00F4">>>>,
    <<"U+00D5", <<"U+00F5">>>>, <<"U+00D8", <<"U+00F8">>>>,
    <<"U+00D9", <<"U+00F9">>>>, <<"U+00DA", <<"U+00FA">>>>,
    <<"U+00DB", <<"U+00FB">>>>, <<"U+00DD", <<"U+00FD">>>>,
    <<"U+00DE", <<"U+00FE">>>>, <<"U+0100", <<"U+0101">>>>,
    <<"U+0102", <<"U+0103">>>>, <<"U+0104", <<"U+0105">>>>,
    <<"U+0106", <<"U+0107">>>>, <<"U+0108", <<"U+0109">>>>,
    <<"U+010A", <<"U+010B">>>>, <<"U+010C", <<"U+010D">>>>,
    <<"U+010E", <<"U+010F">>>>, <<"U+0110", <<"U+0111">>>>,
    <<"U+0112", <<"U+0113">>>>, <<"U+0114", <<"U+0115">>>>,
    <<"U+0116", <<"U+0117">>>>, <<"U+0118", <<"U+0119">>>>,
    <<"U+011A", <<"U+011B">>>>, <<"U+011C", <<"U+011D">>>>,
    <<"U+0120", <<"U+0121">>>>, <<"U+0122", <<"U+0123">>>>,
    <<"U+0124", <<"U+0125">>>>, <<"U+0126", <<"U+0127">>>>,
    <<"U+0128", <<"U+0129">>>>, <<"U+012A", <<"U+012B">>>>,
    <<"U+012C", <<"U+012D">>>>, <<"U+012E", <<"U+012F">>>>,
    <<"U+0132", <<"U+0133">>>>, <<"U+0134", <<"U+0135">>>>,
    <<"U+0136", <<"U+0137">>>>, <<"U+0139", <<"U+013A">>>>,
    <<"U+013B", <<"U+013C">>>>, <<"U+013D", <<"U+013E">>>>,
    <<"U+013F", <<"U+0140">>>>, <<"U+0141", <<"U+0142">>>>,
    <<"U+0143", <<"U+0144">>>>, <<"U+0145", <<"U+0146">>>>,
    <<"U+0147", <<"U+0148">>>>, <<"U+014A", <<"U+014B">>>>,
    <<"U+014C", <<"U+014D">>>>, <<"U+014E", <<"U+014F">>>>,
    <<"U+0150", <<"U+0151">>>>, <<"U+0152", <<"U+0153">>>>,
    <<"U+0154", <<"U+0155">>>>, <<"U+0156", <<"U+0157">>>>,
    <<"U+0158", <<"U+0159">>>>, <<"U+015A", <<"U+015B">>>>,
    <<"U+015C", <<"U+015D">>>>, <<"U+0160", <<"U+0161">>>>,
    <<"U+0162", <<"U+0163">>>>, <<"U+0164", <<"U+0165">>>>,
    <<"U+0166", <<"U+0167">>>>, <<"U+0168", <<"U+0169">>>>,
    <<"U+016A", <<"U+016B">>>>, <<"U+016C", <<"U+016D">>>>,
    <<"U+016E", <<"U+016F">>>>, <<"U+0170", <<"U+0171">>>>,
    <<"U+0172", <<"U+0173">>>>, <<"U+0174", <<"U+0175">>>>,
    <<"U+0176", <<"U+0177">>>>, <<"U+0178", <<"U+00FF">>>>,
    <<"U+0179", <<"U+017A">>>>, <<"U+017B", <<"U+017C">>>>,
    <<"U+017D", <<"U+017E">>>>, <<"U+01C4", <<"U+01C6">>>>,
    <<"U+01C5", <<"U+01C6">>>>, <<"U+01C7", <<"U+01C9">>>>,
    <<"U+01C8", <<"U+01C9">>>>, <<"U+01CA", <<"U+01CC">>>>,
    <<"U+01CB", <<"U+01CC">>>>, <<"U+0391", <<"U+03B1">>>>,
    <<"U+0392", <<"U+03B2">>>>, <<"U+0393", <<"U+03B3">>>>,
    <<"U+0394", <<"U+03B4">>>>, <<"U+0395", <<"U+03B5">>>>,
    <<"U+0396", <<"U+03B6">>>>, <<"U+0397", <<"U+03B7">>>>,
    <<"U+0398", <<"U+03B8">>>>, <<"U+0399", <<"U+03B9">>>>,
    <<"U+039A", <<"U+03BA">>>>, <<"U+039B", <<"U+03BB">>>>,
    <<"U+039C", <<"U+03BC">>>>, <<"U+039D", <<"U+03BD">>>>,
    <<"U+039E", <<"U+03BE">>>>, <<"U+039F", <<"U+03BF">>>>,
    <<"U+03A0", <<"U+03C0">>>>, <<"U+03A1", <<"U+03C1">>>>,
    <<"U+03A3", <<"U+03C3">>>>, <<"U+03A4", <<"U+03C4">>>>,
    <<"U+03A5", <<"U+03C5">>>>, <<"U+03A6", <<"U+03C6">>>>,
    <<"U+03A7", <<"U+03C7">>>>, <<"U+03A8", <<"U+03C8">>>>,
    <<"U+03A9", <<"U+03C9">>>>, <<"U+0410", <<"U+0430">>>>,
    <<"U+0411", <<"U+0431">>>>, <<"U+0412", <<"U+0432">>>>,
    <<"U+0413", <<"U+0433">>>>, <<"U+0414", <<"U+0434">>>>,
    <<"U+0415", <<"U+0435">>>>, <<"U+0416", <<"U+0436">>>>,
    <<"U+0417", <<"U+0437">>>>, <<"U+0418", <<"U+0438">>>>,
    <<"U+0419", <<"U+0439">>>>, <<"U+041A", <<"U+043A">>>>,
    <<"U+041B", <<"U+043B">>>>, <<"U+041C", <<"U+043C">>>>,
    <<"U+041D", <<"U+043D">>>>, <<"U+041E", <<"U+043E">>>>,
    <<"U+041F", <<"U+043F">>>>, <<"U+0420", <<"U+0440">>>>,
    <<"U+0421", <<"U+0441">>>>, <<"U+0422", <<"U+0442">>>>,
    <<"U+0423", <<"U+0443">>>>, <<"U+0424", <<"U+0444">>>>,
    <<"U+0425", <<"U+0445">>>>, <<"U+0426", <<"U+0446">>>>,
    <<"U+0427", <<"U+0447">>>>, <<"U+0428", <<"U+0448">>>>,
    <<"U+0429", <<"U+0449">>>>, <<"U+042A", <<"U+044A">>>>,
    <<"U+042B", <<"U+044B">>>>, <<"U+042C", <<"U+044C">>>>,
    <<"U+042D", <<"U+044D">>>>, <<"U+042E", <<"U+044E">>>>,
    <<"U+042F", <<"U+044F">>>>, <<"U+1E9E", <<"U+00DF">>>>,
    <<"U+212A", <<"k">>>>, <<"U+212B", <<"U+00E5">>>>>>
\* <<c, c.upper()>> for the characters that str.upper() changes
OtherUpper == <<<<"U+00B5", <<"U+039C">>>>, <<"U+00DF", <<"S","S">>>>,
    <<"U+00E0", <<"U+00C0">>>>, <<"U+00E1", <<"U+00C1">>>>,
    <<"U+00E2", <<"U+00C2">>>>, <<"U+00E3", <<"U+00C3">>>>,
    <<"U+00E4", <<"U+00C4">>>>, <<"U+00E5", <<"U+00C5">>>>,
    <<"U+00E6", <<"U+00C6">>>>, <<"U+00E8", <<"U+00C8">>>>,
    <<"U+00E9", <<"U+00C9">>>>, <<"U+00EA", <<"U+00CA">>>>,
    <<"U+00EB", <<"U+00CB">>>>, <<"U+00EC", <<"U+00CC">>>>,
    <<"U+00ED", <<"U+00CD">>>>, <<"U+00EE", <<"U+00CE">>>>,
    <<"U+00EF", <<"U+00CF">>>>, <<"U+00F0", <<"U+00D0">>>>,
    <<"U+00F1", <<"U+00D1">>>>, <<"U+00F2", <<"U+00D2">>>>,
    <<"U+00F3", <<"U+00D3">>>>, <<"U+00F4", <<"U+00D4">>>>,
    <<"U+00F5", <<"U+00D5">>>>, <<"U+00F8", <<"U+00D8">>>>,
    <<"U+00F9", <<"U+00D9">>>>, <<"U+00FA", <<"U+00DA">>>>,
    <<"U+00FB", <<"U+00DB">>>>, <<"U+00FD", <<"U+00DD">>>>,
    <<"U+00FE", <<"U+00DE">>>>, <<"U+00FF", <<"U+0178">>>>,
    <<"U+0101", <<"U+0100">>>>, <<"U+0103", <<"U+0102">>>>,
    <<"U+0105", <<"U+0104">>>>, <<"U+0107", <<"U+0106">>>>,
    <<"U+0109", <<"U+0108">>>>, <<"U+010B", <<"U+010A">>>>,
    <<"U+010D", <<"U+010C">>>>, <<"U+010F", <<"U+010E">>>>,
    <<"U+0111", <<"U+0110">>>>, <<"U+0113", <<"U+0112">>>>,
    <<"U+0115", <<"U+0114">>>>, <<"U+0117", <<"U+0116">>>>,
    <<"U+0119", <<"U+0118">>>>, <<"U+011B", <<"U+011A">>>>,
    <<"U+011D", <<"U+011C">>>>, <<"U+0121", <<"U+0120">>>>,
    <<"U+0123", <<"U+0122">>>>, <<"U+0125", <<"U+0124">>>>,
    <<"U+0127", <<"U+0126">>>>, <<"U+0129", <<"U+0128">>>>,
    <<"U+012B", <<"U+012A">>>>, <<"U+012D", <<"U+012C">>>>,
    <<"U+012F", <<"U+012E">>>>, <<"U+0133", <<"U+0132">>>>,
    <<"U+0135", <<"U+0134">>>>, <<"U+0137", <<"U+0136">>>>,
    <<"U+013A", <<"U+0139">>>>, <<"U+013C", <<"U+013B">>>>,
    <<"U+013E", <<"U+013D">>>>, <<"U+0140", <<"U+013F">>>>,
    <<"U+0142", <<"U+0141">>>>, <<"U+0144", <<"U+0143">>>>,
    <<"U+0146", <<"U+0145">>>>, <<"U+0148", <<"U+0147">>>>,
    <<"U+0149", <<"U+02BC","N">>>>, <<"U+014B", <<"U+014A">>>>,
    <<"U+014D", <<"U+014C">>>>, <<"U+014F", <<"U+014E">>>>,
    <<"U+0151", <<"U+0150">>>>, <<"U+0153", <<"U+0152">>>>,
    <<"U+0155", <<"U+0154">>>>, <<"U+0157", <<"U+0156">>>>,
    <<"U+0159", <<"U+0158">>>>, <<"U+015B", <<"U+015A">>>>,
    <<"U+015D", <<"U+015C">>>>, <<"U+0161", <<"U+0160">>>>,
    <<"U+0163", <<"U+0162">>>>, <<"U+0165", <<"U+0164">>>>,
    <<"U+0167", <<"U+0166">>>>, <<"U+0169", <<"U+0168">>>>,
    <<"U+016B", <<"U+016A">>>>, <<"U+016D", <<"U+016C">>>>,
    <<"U+016F", <<"U+016E">>>>, <<"U+0171", <<"U+0170">>>>,
    <<"U+0173", <<"U+0172">>>>, <<"U+0175", <<"U+0174">>>>,
    <<"U+0177", <<"U+0176">>>>, <<"U+017A", <<"U+0179">>>>,
    <<"U+017C", <<"U+017B">>>>, <<"U+017E", <<"U+017D">>>>,
    <<"U+017F", <<"S">>>>, <<"U+01C5", <<"U+01C4">>>>,
    <<"U+01C6", <<"U+01C4">>>>, <<"U+01C8", <<"U+01C7">>>>,
    <<"U+01C9", <<"U+01C7">>>>, <<"U+01CB", <<"U+01CA">>>>,
    <<"U+01CC", <<"U+01CA">>>>, <<"U+0345", <<"U+0399">>>>,
    <<"U+03B1", <<"U+0391">>>>, <<"U+03B2", <<"U+0392">>>>,
    <<"U+03B3", <<"U+0393">>>>, <<"U+03B4", <<"U+0394">>>>,
    <<"U+03B5", <<"U+0395">>>>, <<"U+03B6", <<"U+0396">>>>,
    <<"U+03B7", <<"U+0397">>>>, <<"U+03B8", <<"U+0398">>>>,
    <<"U+03B9", <<"U+0399">>>>, <<"U+03BA", <<"U+039A">>>>,
    <<"U+03BB", <<"U+039B">>>>, <<"U+03BC", <<"U+039C">>>>,
    <<"U+03BD", <<"U+039D">>>>, <<"U+03BE", <<"U+039E">>>>,
    <<"U+03BF", <<"U+039F">>>>, <<"U+03C0", <<"U+03A0">>>>,
    <<"U+03C1", <<"U+03A1">>>>, <<"U+03C2", <<"U+03A3">>>>,
    <<"U+03C3", <<"U+03A3">>>>, <<"U+03C4", <<"U+03A4">>>>,
    <<"U+03C5", <<"U+03A5">>>>, <<"U+03C6", <<"U+03A6">>>>,
    <<"U+03C7", <<"U+03A7">>>>, <<"U+03C8", <<"U+03A8">>>>,
    <<"U+03C9", <<"U+03A9">>>>, <<"U+0430", <<"U+0410">>>>,
    <<"U+0431", <<"U+0411">>>>, <<"U+0432", <<"U+0412">>>>,
    <<"U+0433", <<"U+0413">>>>, <<"U+0434", <<"U+0414">>>>,
    <<"U+0435", <<"U+0415">>>>, <<"U+0436", <<"U+0416">>>>,
    <<"U+0437", <<"U+0417">>>>, <<"U+0438", <<"U+0418">>>>,
    <<"U+0439", <<"U+0419">>>>, <<"U+043A", <<"U+041A">>>>,
    <<"U+043B", <<"U+041B">>>>, <<"U+043C", <<"U+041C">>>>,
    <<"U+043D", <<"U+041D">>>>, <<"U+043E", <<"U+041E">>>>,
    <<"U+043F", <<"U+041F">>>>, <<"U+0440", <<"U+0420">>>>,
    <<"U+0441", <<"U+0421">>>>, <<"U+0442", <<"U+0422">>>>,
    <<"U+0443", <<"U+0423">>>>, <<"U+0444", <<"U+0424">>>>,
    <<"U+0445", <<"U+0425">>>>, <<"U+0446", <<"U+0426">>>>,
    <<"U+0447", <<"U+0427">>>>, <<"U+0448", <<"U+0428">>>>,
    <<"U+0449", <<"U+0429">>>>, <<"U+044A", <<"U+042A">>>>,
    <<"U+044B", <<"U+042B">>>>, <<"U+044C", <<"U+042C">>>>,
    <<"U+044D", <<"U+042D">>>>, <<"U+044E", <<"U+042E">>>>,
    <<"U+044F", <<"U+042F">>>>, <<"U+FB00", <<"F","F">>>>,
    <<"U+FB01", <<"F","I">>>>, <<"U+FB02", <<"F","L">>>>,
    <<"U+FB03", <<"F","F","I">>>>, <<"U+FB04", <<"F","F","L">>>>,
    <<"U+FB05", <<"S","T">>>>, <<"U+FB06", <<"S","T">>>>>>
\* the uppercase characters (str.isupper() of the character alone)
OtherUpperCased == {"U+00C0", "U+00C1", "U+00C2", "U+00C3", "U+00C4",
    "U+00C5", "U+00C6", "U+00C8", "U+00C9", "U+00CA", "U+00CB", "U+00CC",
    "U+00CD", "U+00CE", "U+00CF", "U+00D0", "U+00D1", "U+00D2", "U+00D3",
    "U+00D4", "U+00D5", "U+00D8", "U+00D9", "U+00DA", "U+00DB", "U+00DD",
    "U+00DE", "U+0100", "U+0102", "U+0104", "U+0106", "U+0108", "U+010A",
    "U+010C", "U+010E", "U+0110", "U+0112", "U+0114", "U+0116", "U+0118",
    "U+011A", "U+011C", "U+0120", "U+0122", "U+0124", "U+0126", "U+0128",
    "U+012A", "U+012C", "U+012E", "U+0132", "U+0134", "U+0136", "U+0139",
    "U+013B", "U+013D", "U+013F", "U+0141", "U+0143", "U+0145", "U+0147",
    "U+014A", "U+014C", "U+014E", "U+0150", "U+0152", "U+0154", "U+0156",
    "U+0158", "U+015A", "U+015C", "U+0160", "U+0162", "U+0164", "U+0166",
    "U+0168", "U+016A", "U+016C", "U+016E", "U+0170", "U+0172", "U+0174",
    "U+0176", "U+0178", "U+0179", "U+017B", "U+017D", "U+01C4", "U+01C7",
    "U+01CA", "U+0391", "U+0392", "U+0393", "U+0394", "U+0395", "U+0396",
    "U+0397", "U+0398", "U+0399", "U+039A", "U+039B", "U+039C", "U+039D",
    "U+039E", "U+039F", "U+03A0", "U+03A1", "U+03A3", "U+03A4", "U+03A5",
    "U+03A6", "U+03A7", "U+03A8", "U+03A9", "U+0410", "U+0411", "U+0412",
    "U+0413", "U+0414", "U+0415", "U+0416", "U+0417", "U+0418", "U+0419",
    "U+041A", "U+041B", "U+041C", "U+041D", "U+041E", "U+041F", "U+0420",
    "U+0421", "U+0422", "U+0423", "U+0424", "U+0425", "U+0426", "U+0427",
    "U+0428", "U+0429", "U+042A", "U+042B", "U+042C", "U+042D", "U+042E",
    "U+042F", "U+1E9E", "U+212A", "U+212B"}
\* the lowercase and the titlecase characters: a string that holds one is
\* not isupper()
OtherLowerCased == {"U+00AA", "U+00B5", "U+00BA", "U+00DF", "U+00E0",
    "U+00E1", "U+00E2", "U+00E3", "U+00E4", "U+00E5", "U+00E6", "U+00E8",
    "U+00E9", "U+00EA", "U+00EB", "U+00EC", "U+00ED", "U+00EE", "U+00EF",
    "U+00F0", "U+00F1", "U+00F2", "U+00F3", "U+00F4", "U+00F5", "U+00F8",
    "U+00F9", "U+00FA", "U+00FB", "U+00FD", "U+00FE", "U+00FF", "U+0101",
    "U+0103", "U+0105", "U+0107", "U+0109", "U+010B", "U+010D", "U+010F",
    "U+0111", "U+0113", "U+0115", "U+0117", "U+0119", "U+011B", "U+011D",
    "U+0121", "U+0123", "U+0125", "U+0127", "U+0129", "U+012B", "U+012D",
    "U+012F", "U+0133", "U+0135", "U+0137", "U+0138", "U+013A", "U+013C",
    "U+013E", "U+0140", "U+0142", "U+0144", "U+0146", "U+0148", "U+0149",
    "U+014B", "U+014D", "U+014F", "U+0151", "U+0153", "U+0155", "U+0157",
    "U+0159", "U+015B", "U+015D", "U+0161", "U+0163", "U+0165", "U+0167",
    "U+0169", "U+016B", "U+016D", "U+016F", "U+0171", "U+0173", "U+0175",
    "U+0177", "U+017A", "U+017C", "U+017E", "U+017F", "U+01C5", "U+01C6",
    "U+01C8", "U+01C9", "U+01CB", "U+01CC", "U+0345", "U+03B1", "U+03B2",
    "U+03B3", "U+03B4", "U+03B5", "U+03B6", "U+03B7", "U+03B8", "U+03B9",
    "U+03BA", "U+03BB", "U+03BC", "U+03BD", "U+03BE", "U+03BF", "U+03C0",
    "U+03C1", "U+03C2", "U+03C3", "U+03C4", "U+03C5", "U+03C6", "U+03C7",
    "U+03C8", "U+03C9", "U+0430", "U+0431", "U+0432", "U+0433", "U+0434",
    "U+0435", "U+0436", "U+0437", "U+0438", "U+0439", "U+043A", "U+043B",
    "U+043C", "U+043D", "U+043E", "U+043F", "U+0440", "U+0441", "U+0442",
    "U+0443", "U+0444", "U+0445", "U+0446", "U+0447", "U+0448", "U+0449",
    "U+044A", "U+044B", "U+044C", "U+044D", "U+044E", "U+044F", "U+FB00",
    "U+FB01", "U+FB02", "U+FB03", "U+FB04", "U+FB05", "U+FB06"}
\* the alphanumerics of the class \w of a str pattern
OtherWordChars == {"U+00AA", "U+00B2", "U+00B3", "U+00B5", "U+00B9", "U+00BA",
    "U+00BC", "U+00BD", "U+00BE", "U+00C0", "U+00C1", "U+00C2", "U+00C3",
    "U+00C4", "U+00C5", "U+00C6", "U+00C8", "U+00C9", "U+00CA", "U+00CB",
    "U+00CC", "U+00CD", "U+00CE", "U+00CF", "U+00D0", "U+00D1", "U+00D2",
    "U+00D3", "U+00D4", "U+00D5", "U+00D8", "U+00D9", "U+00DA", "U+00DB",
    "U+00DD", "U+00DE", "U+00DF", "U+00E0", "U+00E1", "U+00E2", "U+00E3",
    "U+00E4", "U+00E5", "U+00E6", "U+00E8", "U+00E9", "U+00EA", "U+00EB",
    "U+00EC", "U+00ED", "U+00EE", "U+00EF", "U+00F0", "U+00F1", "U+00F2",
    "U+00F3", "U+00F4", "U+00F5", "U+00F8", "U+00F9", "U+00FA", "U+00FB",
    "U+00FD", "U+00FE", "U+00FF", "U+0100", "U+0101", "U+0102", "U+0103",
    "U+0104", "U+0105", "U+0106", "U+0107", "U+0108", "U+0109", "U+010A",
    "U+010B", "U+010C", "U+010D", "U+010E", "U+010F", "U+0110", "U+0111",
    "U+0112", "U+0113", "U+0114", "U+0115", "U+0116", "U+0117", "U+0118",
    "U+0119", "U+011A", "U+011B", "U+011C", "U+011D", "U+0120", "U+0121",
    "U+0122", "U+0123", "U+0124", "U+0125", "U+0126", "U+0127", "U+0128",
    "U+0129", "U+012A", "U+012B", "U+012C", "U+012D", "U+012E", "U+012F",
    "U+0132", "U+0133", "U+0134", "U+0135", "U+0136", "U+0137", "U+0138",
    "U+0139", "U+013A", "U+013B", "U+013C", "U+013D", "U+013E", "U+013F",
    "U+0140", "U+0141", "U+0142", "U+0143", "U+0144", "U+0145", "U+0146",
    "U+0147", "U+0148", "U+0149", "U+014A", "U+014B", "U+014C", "U+014D",
    "U+014E", "U+014F", "U+0150", "U+0151", "U+0152", "U+0153", "U+0154",
    "U+0155", "U+0156", "U+0157", "U+0158", "U+0159", "U+015A", "U+015B",
    "U+015C", "U+015D", "U+0160", "U+0161", "U+0162", "U+0163", "U+0164",
    "U+0165", "U+0166", "U+0167", "U+0168", "U+0169", "U+016A", "U+016B",
    "U+016C", "U+016D", "U+016E", "U+016F", "U+0170", "U+0171", "U+0172",
    "U+0173", "U+0174", "U+0175", "U+0176", "U+0177", "U+0178", "U+0179",
    "U+017A", "U+017B", "U+017C", "U+017D", "U+017E", "U+017F", "U+01C4",
    "U+01C5", "U+01C6", "U+01C7", "U+01C8", "U+01C9", "U+01CA", "U+01CB",
    "U+01CC", "U+02BC", "U+0391", "U+0392", "U+0393", "U+0394", "U+0395",
    "U+0396", "U+0397", "U+0398", "U+0399", "U+039A", "U+039B", "U+039C",
    "U+039D", "U+039E", "U+039F", "U+03A0", "U+03A1", "U+03A3", "U+03A4",
    "U+03A5", "U+03A6", "U+03A7", "U+03A8", "U+03A9", "U+03B1", "U+03B2",
    "U+03B3", "U+03B4", "U+03B5", "U+03B6", "U+03B7", "U+03B8", "U+03B9",
    "U+03BA", "U+03BB", "U+03BC", "U+03BD", "U+03BE", "U+03BF", "U+03C0",
    "U+03C1", "U+03C2", "U+03C3", "U+03C4", "U+03C5", "U+03C6", "U+03C7",
    "U+03C8", "U+03C9", "U+0410", "U+0411", "U+0412", "U+0413", "U+0414",
    "U+0415", "U+0416", "U+0417", "U+0418", "U+0419", "U+041A", "U+041B",
    "U+041C", "U+041D", "U+041E", "U+041F", "U+0420", "U+0421", "U+0422",
    "U+0423", "U+0424", "U+0425", "U+0426", "U+0427", "U+0428", "U+0429",
    "U+042A", "U+042B", "U+042C", "U+042D", "U+042E", "U+042F", "U+0430",
    "U+0431", "U+0432", "U+0433", "U+0434", "U+0435", "U+0436", "U+0437",
    "U+0438", "U+0439", "U+043A", "U+043B", "U+043C", "U+043D", "U+043E",
    "U+043F", "U+0440", "U+0441", "U+0442", "U+0443", "U+0444", "U+0445",
    "U+0446", "U+0447", "U+0448", "U+0449", "U+044A", "U+044B", "U+044C",
    "U+044D", "U+044E", "U+044F", "U+0660", "U+0661", "U+0662", "U+0663",
    "U+0664", "U+0665", "U+0666", "U+0667", "U+0668", "U+0669", "U+1E9E",
    "U+212A", "U+212B", "U+4E2D", "U+FB00", "U+FB01", "U+FB02", "U+FB03",
    "U+FB04", "U+FB05", "U+FB06"}

\* the function a table of pairs <<c, value>> lists
TableOf(pairs) ==
    [c \in {pairs[i][1] : i \in 1..Len(pairs)} |->
        pairs[CHOOSE i \in 1..Len(pairs) : pairs[i][1] = c][2]]
OtherToLower == TableOf(OtherLower)
OtherToUpper == TableOf(OtherUpper)
OtherLowered == DOMAIN OtherToLower
OtherUppered == DOMAIN OtherToUpper

WordChars == Letters \cup Digits \cup {"_"} \cup OtherWordChars
\* the characters str.isspace() and the regex class \s of a str pattern hold:
\* tab, line feed, vertical tab, form feed, carriage return, the separators
\* U+001C..U+001F and the space; then, outside ASCII, the next-line control,
\* the no-break space and the Unicode spaces and line separators
AsciiSpaces == {"\t", "\n", "U+000B", "\f", "\r",
                "U+001C", "U+001D", "U+001E", "U+001F", " "}
UnicodeSpaces == {"U+0085", "U+00A0", "U+1680",
                  "U+2000", "U+2001", "U+2002", "U+2003", "U+2004", "U+2005",
                  "U+2006", "U+2007", "U+2008", "U+2009", "U+200A",
                  "U+2028", "U+2029", "U+202F", "U+205F", "U+3000"}
\* the ASCII characters that are named by their code point
AsciiNamed == {"U+0000", "U+0001", "U+0002", "U+0003", "U+0004", "U+0005", "U+0006",
               "U+0007", "U+0008", "U+000B", "U+000E", "U+000F", "U+0010", "U+0011",
               "U+0012", "U+0013", "U+0014", "U+0015", "U+0016", "U+0017", "U+0018",
               "U+0019", "U+001A", "U+001B", "U+001C", "U+001D", "U+001E", "U+001F",
               "U+0060", "U+007F"}
\* each capital letter's small letter, and each small letter's capital
ToLower == [c \in UpperChars |->
              IF c \in Range(AsciiUpper) THEN AsciiLower[IndexOf(c, AsciiUpper)]
              ELSE TrLower[IndexOf(c, TrUpper)]]
ToUpper == [c \in LowerChars |->
              IF c \in Range(AsciiLower) THEN AsciiUpper[IndexOf(c, AsciiLower)]
              ELSE TrUpper[IndexOf(c, TrLower)]]
\* str.isspace / the regex class \s
IsSpace(c) == c \in AsciiSpaces \cup UnicodeSpaces
\* the regex class \w of a str pattern: alphanumerics and the underscore
IsWordChar(c) == c \in WordChars
\* a character outside ASCII is named by its code point, which is six characters
IsAsciiChar(c) == Len(c) = 1 \/ c \in AsciiNamed

\* str.lower() of one character: the capital dotted I becomes two characters;
\* no other character's lower() has another length
LowerChar(c) ==
    IF c = DottedI THEN <<"i", CombDot>>
    ELSE IF c \in UpperChars THEN <<ToLower[c]>>
    ELSE IF Len(c) # 1 /\ c \in OtherLowered THEN OtherToLower[c]
    ELSE <<c>>
\* str.upper() of one character: the dotless i becomes the ASCII capital I;
\* some become two or three characters (the sharp s becomes SS)
UpperChar(c) ==
    IF c = DotlessI THEN <<"I">>
    ELSE IF c \in LowerChars THEN <<ToUpper[c]>>
    ELSE IF Len(c) # 1 /\ c \in OtherUppered THEN OtherToUpper[c]
    ELSE <<c>>

\* The capital sigma's lower() depends on its place: it is the final sigma
\* when a cased character comes before it and none comes after it, the
\* case-ignorable characters in between not counted.
CapitalSigma == "U+03A3"
CaseIgnorable == {"'", ".", ":", "^", "U+0060", "U+00A8", "U+00AD", "U+00AF",
    "U+00B4", "U+00B7", "U+00B8", "U+02BC", "U+0307", "U+0345", "U+2019"}
IsCased(c) == c \in Letters \/ c \in OtherUpperCased \/ c \in OtherLowerCased
RECURSIVE SkipBack(_, _)
SkipBack(s, j) == IF j >= 1 /\ s[j] \in CaseIgnorable THEN SkipBack(s, j - 1) ELSE j
RECURSIVE SkipForward(_, _)
SkipForward(s, j) ==
    IF j <= Len(s) /\ s[j] \in CaseIgnorable THEN SkipForward(s, j + 1) ELSE j
FinalSigma(s, i) ==
    /\ SkipBack(s, i - 1) >= 1
    /\ IsCased(s[SkipBack(s, i - 1)])
    /\ SkipForward(s, i + 1) > Len(s) \/ ~IsCased(s[SkipForward(s, i + 1)])
\* str.lower() of the character at place i of s
LowerAt(s, i) ==
    IF s[i] = CapitalSigma
    THEN <<IF FinalSigma(s, i) THEN "U+03C2" ELSE "U+03C3">>
    ELSE LowerChar(s[i])
RECURSIVE LowerFrom(_, _)
LowerFrom(s, i) == IF i > Len(s) THEN <<>> ELSE LowerAt(s, i) \o LowerFrom(s, i + 1)
Lower(s) == LowerFrom(s, 1)
RECURSIVE Upper(_)
Upper(s) == IF s = <<>> THEN <<>> ELSE UpperChar(Head(s)) \o Upper(Tail(s))

\* str.isupper(): some uppercase character, and no lowercase or titlecase one
IsUpper(s) ==
    /\ \E i \in 1..Len(s) : s[i] \in UpperChars \/ s[i] \in OtherUpperCased
    /\ \A i \in 1..Len(s) : s[i] \notin LowerChars /\ s[i] \notin OtherLowerCased
IsAscii(s) == \A i \in 1..Len(s) : IsAsciiChar(s[i])

\* the slice s[a:b] of Python, for 0 <= a
Slice(s, a, b) ==
    LET hi == IF b > Len(s) THEN Len(s) ELSE b
    IN  IF a >= hi THEN <<>> ELSE SubSeq(s, a + 1, hi)
\* s[a:]
SliceFrom(s, a) == Slice(s, a, Len(s))
\* whether p occurs in s at offset i (0-based)
OccursAt(p, s, i) == i >= 0 /\ i + Len(p) <= Len(s) /\ SubSeq(s, i + 1, i + Len(p)) = p
\* str.find(p, pos): the first offset >= pos where p occurs, or -1
Find(s, p, pos) ==
    LET hits == {i \in pos..(Len(s) - Len(p)) : OccursAt(p, s, i)}
    IN  IF hits = {} THEN -1 ELSE CHOOSE i \in hits : \A j \in hits : i <= j

normalize_token(tok) == Lower(tok)

\* Characters a str pattern under re.IGNORECASE treats as one: i, dotless i,
\* I and dotted I are all the same, the Kelvin sign is a k and the long s an
\* s; every other letter folds to its lowercase.
FoldChar(c) ==
    IF c \in {"i", "I", DottedI, DotlessI} THEN "i"
    ELSE IF c = KelvinSign THEN "k"
    ELSE IF c = LongS THEN "s"
    ELSE IF c \in UpperChars THEN ToLower[c]
    ELSE c

(***************************************************************************)
(* preserve_casing, is_all_caps, looks_like_proper_noun                    *)
(***************************************************************************)
preserve_casing(orig, sugg) ==
    IF IsUpper(orig) THEN Upper(sugg)
    ELSE IF IsUpper(Slice(orig, 0, 1)) THEN Upper(Slice(sugg, 0, 1)) \o SliceFrom(sugg, 1)
    ELSE sugg

is_all_caps(token) == IsUpper(token) /\ Len(token) >= 2

looks_like_proper_noun(original_token, token_index_in_sentence) ==
    IF token_index_in_sentence = 0 THEN FALSE
    ELSE IsUpper(Slice(original_token, 0, 1))

(***************************************************************************)
(* TR_SUFFIX_RE and split_root_suffix                                      *)
(***************************************************************************)
\* the alternatives of the suffix group, in the pattern's order
SuffixAlternatives == <<
    <<"l","a","r">>, <<"l","e","r">>,
    <<DotlessI,"m">>, <<"i","m">>, <<"u","m">>, <<"U+00FC","m">>, <<"m">>,
    <<DotlessI,"n">>, <<"i","n">>, <<"u","n">>, <<"U+00FC","n">>, <<"n">>,
    <<DotlessI>>, <<"i">>, <<"u">>, <<"U+00FC">>,
    <<"a">>, <<"e">>,
    <<"d","a">>, <<"d","e">>, <<"t","a">>, <<"t","e">>,
    <<"d","a","n">>, <<"d","e","n">>, <<"t","a","n">>, <<"t","e","n">>,
    <<"y","a">>, <<"y","e">>,
    <<"k","i">>,
    <<"d",DotlessI,"r">>, <<"d","i","r">>, <<"d","u","r">>, <<"d","U+00FC","r">>,
    <<"t",DotlessI,"r">>, <<"t","i","r">>, <<"t","u","r">>, <<"t","U+00FC","r">>,
    <<"m",DotlessI,"U+015F">>, <<"m","i","U+015F">>, <<"m","u","U+015F">>,
    <<"m","U+00FC","U+015F">>,
    <<"a","c","a","k">>, <<"e","c","e","k">>,
    <<"y",DotlessI>>, <<"y","i">>, <<"y","u">>, <<"y","U+00FC">>,
    <<"y","l","a">>, <<"y","l","e">> >>

\* the class [a-z and the six Turkish small letters] under re.IGNORECASE:
\* the 64 letters, and the two characters that fold to k and to s
IsRootChar(c) == c \in Letters \/ c \in {KelvinSign, LongS}

\* a string with each character folded as re.IGNORECASE folds it
Fold(s) == [i \in 1..Len(s) |-> FoldChar(s[i])]
FoldedAlternatives == {Fold(SuffixAlternatives[k]) : k \in 1..Len(SuffixAlternatives)}
\* the longest alternative's length
MaxSuffixLen == 4

\* whether s is a concatenation of zero or more alternatives: (?:...)*$
RECURSIVE IsSuffixChain(_)
IsSuffixChain(s) ==
    \/ s = <<>>
    \/ \E n \in 1..(IF Len(s) < MaxSuffixLen THEN Len(s) ELSE MaxSuffixLen) :
          /\ Fold(SubSeq(s, 1, n)) \in FoldedAlternatives
          /\ IsSuffixChain(SubSeq(s, n + 1, Len(s)))

\* the number of leading characters of norm the root class matches
RECURSIVE RootRunEnd(_, _)
RootRunEnd(norm, i) ==
    IF i < Len(norm) /\ IsRootChar(norm[i + 1]) THEN RootRunEnd(norm, i + 1) ELSE i

\* rest without its last character when that is a line feed: `$` matches at
\* the end of the string and also just before a line feed that ends it
BeforeFinalNewline(rest) ==
    IF rest # <<>> /\ rest[Len(rest)] = "\n" THEN SubSeq(rest, 1, Len(rest) - 1) ELSE rest

\* The root group is greedy and comes first: the engine tries the longest
\* root, and gives back one character at a time until what is left of norm,
\* up to `$`, is a chain of suffixes (the empty chain is one).  The length of
\* the root of the match it returns, trying k and then the shorter ones; 0:
\* no match.
RECURSIVE RootLength(_, _)
RootLength(norm, k) ==
    IF k < 1 THEN 0
    ELSE IF IsSuffixChain(BeforeFinalNewline(SubSeq(norm, k + 1, Len(norm)))) THEN k
    ELSE RootLength(norm, k - 1)

\* returns <<root, suffix>>: the two groups of the match, or <<norm, "">>
split_root_suffix(norm) ==
    LET k == RootLength(norm, RootRunEnd(norm, 0))
    IN  IF k = 0 THEN <<norm, <<>>>>
        ELSE <<SubSeq(norm, 1, k), BeforeFinalNewline(SubSeq(norm, k + 1, Len(norm)))>>

(***************************************************************************)
(* protect_spans and in_protected.  A span is <<start, end>>, 0-based and  *)
(* half-open; At(s, i) is the character at offset i.                       *)
(***************************************************************************)
At(s, i) == s[i + 1]

\* the end of the run of non-space characters that starts at offset i
RECURSIVE NonSpaceRunEnd(_, _)
NonSpaceRunEnd(s, i) ==
    IF i < Len(s) /\ ~IsSpace(At(s, i)) THEN NonSpaceRunEnd(s, i + 1) ELSE i

\* the grave accent, three of which delimit a code block
Backtick == "U+0060"
Fence == <<Backtick, Backtick, Backtick>>
\* CODE_LIKE_RE.finditer from offset pos: fence, shortest body, fence
RECURSIVE CodeSpans(_, _)
CodeSpans(s, pos) ==
    LET open == Find(s, Fence, pos)
        close == IF open = -1 THEN -1 ELSE Find(s, Fence, open + 3)
    IN  IF open = -1 \/ close = -1 THEN <<>>
        ELSE <<<<open, close + 3>>>> \o CodeSpans(s, close + 3)

\* the length of "http://" or "https://" at offset i, or 0
UrlSchemeLen(s, i) ==
    IF OccursAt(<<"h","t","t","p",":","/","/">>, s, i) THEN 7
    ELSE IF OccursAt(<<"h","t","t","p","s",":","/","/">>, s, i) THEN 8
    ELSE 0
\* whether URL_RE matches at offset i: the scheme, then one non-space or more
UrlAt(s, i) ==
    /\ UrlSchemeLen(s, i) > 0
    /\ NonSpaceRunEnd(s, i + UrlSchemeLen(s, i)) > i + UrlSchemeLen(s, i)
RECURSIVE UrlSpans(_, _)
UrlSpans(s, pos) ==
    LET starts == {i \in pos..(Len(s) - 1) : UrlAt(s, i)}
    IN  IF starts = {} THEN <<>>
        ELSE LET a == Min(starts)
                 b == NonSpaceRunEnd(s, a)
             IN  <<<<a, b>>>> \o UrlSpans(s, b)

\* the regex assertion \b at offset i
WordBoundary(s, i) ==
    LET before == i > 0 /\ IsWordChar(At(s, i - 1))
        after == i < Len(s) /\ IsWordChar(At(s, i))
    IN  before # after
\* EMAIL_RE at offset i: \b, a non-space run, "@" at p, a non-space run, "."
\* at q, a non-space run, \b at e.  Each run is greedy: the engine keeps the
\* largest p that leaves a match, then the largest q, then the largest e.
EmailEnds(s, i, p, q) ==
    {e \in (q + 2)..NonSpaceRunEnd(s, i) : WordBoundary(s, e)}
EmailDots(s, i, p) ==
    {q \in (p + 2)..(NonSpaceRunEnd(s, i) - 2) : At(s, q) = "." /\ EmailEnds(s, i, p, q) # {}}
EmailAts(s, i) ==
    {p \in (i + 1)..(NonSpaceRunEnd(s, i) - 4) : At(s, p) = "@" /\ EmailDots(s, i, p) # {}}
EmailAt(s, i) == WordBoundary(s, i) /\ EmailAts(s, i) # {}
EmailEnd(s, i) ==
    LET p == Max(EmailAts(s, i))
        q == Max(EmailDots(s, i, p))
    IN  Max(EmailEnds(s, i, p, q))
RECURSIVE EmailSpans(_, _)
EmailSpans(s, pos) ==
    LET starts == {i \in pos..(Len(s) - 1) : EmailAt(s, i)}
    IN  IF starts = {} THEN <<>>
        ELSE LET a == Min(starts)
                 b == EmailEnd(s, a)
             IN  <<<<a, b>>>> \o EmailSpans(s, b)

SpanLess(x, y) == x[1] < y[1] \/ (x[1] = y[1] /\ x[2] < y[2])
\* list.sort() of a list of pairs
RECURSIVE SortSpans(_)
SortSpans(spans) ==
    IF spans = <<>> THEN <<>>
    ELSE LET i == Min({k \in 1..Len(spans) :
                         \A j \in 1..Len(spans) : ~SpanLess(spans[j], spans[k])})
         IN  <<spans[i]>> \o
             SortSpans(SubSeq(spans, 1, i - 1) \o SubSeq(spans, i + 1, Len(spans)))

protect_spans(s) == SortSpans(CodeSpans(s, 0) \o UrlSpans(s, 0) \o EmailSpans(s, 0))

in_protected(a, b, protected) ==
    \E k \in 1..Len(protected) : a >= protected[k][1] /\ b <= protected[k][2]

(***************************************************************************)
(* Application data (src/app.py:132-145).  The lexicon, the suggestion     *)
(* dictionary and the whitelist are read from data files once, at import:  *)
(* a file that is not there gives an empty collection (src/app.py:23-32).  *)
(* The model starts either with no data file, or with a small lexicon and  *)
(* dictionary and one of the whitelists.                                   *)
(***************************************************************************)
\* what load_lines and load_json give when the file is not there
NoTerms == {}
NoSuggestions == <<>>
\* the content of a foreign_terms.txt
LexiconTerms == {<<"b","i","g"," ","d","a","t","a">>, <<"d","a","t","a"," ","s","e","t">>,
                 <<"d","a","t","a">>, <<"s","e","t">>, <<"t","e","s","t">>}
\* the content of a suggestions_1000.json
LexiconSuggestions ==
    (<<"b","i","g"," ","d","a","t","a">> :> <<<<"b","U+00FC","y","U+00FC","k"," ","v","e","r","i">>>>)
    @@ (<<"d","a","t","a">> :> <<<<"v","e","r","i">>, <<"b","i","l","g","i">>>>)
    @@ (<<"t","e","s","t">> :> <<<<"s",DotlessI,"n","a","m","a">>, <<"d","e","n","e","m","e">>>>)
\* the data a specification that does not detect starts with: no data file
NoData == FOREIGN_TERMS = NoTerms /\ SUGGESTIONS = NoSuggestions
\* no data file, or the lexicon and the dictionary
LoadData ==
    \/ NoData
    \/ FOREIGN_TERMS = LexiconTerms /\ SUGGESTIONS = LexiconSuggestions

HasSpace(t) == \E i \in 1..Len(t) : t[i] = " "
\* PHRASES: the lexicon entries that hold a space.  The list is sorted by
\* length; its order decides only the order in which hits are pooled, and the
\* pooled hits are sorted again before they are used.
PHRASES == {t \in FOREIGN_TERMS : HasSpace(t)}

COMMON_LOANWORDS == {
    <<"p","r","o","j","e">>,
    <<"r","a","p","o","r">>,
    <<"a","n","a","l","i","z">>,
    <<"m","o","d","e","l">>,
    <<"m","e","t","o","d">>,
    <<"m","e","t","o","d","o","l","o","j","i">>,
    <<"t","e","s","t">>,
    <<"g","r","a","f","i","k">>,
    <<"t","a","b","l","o">>,
    <<"f","o","r","m">>,
    <<"f","o","r","m","a","t">>,
    <<"s","i","s","t","e","m">> }

Levels == {"light", "balanced", "strict"}

level_allows(term_norm, level) ==
    IF level = "strict" THEN TRUE
    ELSE IF level = "balanced" THEN term_norm \notin COMMON_LOANWORDS
    ELSE (term_norm \in DOMAIN SUGGESTIONS) \/ (IsAscii(term_norm) /\ Len(term_norm) >= 4)

(***************************************************************************)
(* Sentences and tokens                                                    *)
(***************************************************************************)
RECURSIVE SpaceRunEnd(_, _)
SpaceRunEnd(s, i) ==
    IF i < Len(s) /\ IsSpace(At(s, i)) THEN SpaceRunEnd(s, i + 1) ELSE i

\* the start of the run of spaces that ends at offset j
RECURSIVE SpaceRunStart(_, _)
SpaceRunStart(s, j) ==
    IF j > 0 /\ IsSpace(At(s, j - 1)) THEN SpaceRunStart(s, j - 1) ELSE j

\* str.strip()
Strip(s) ==
    LET a == SpaceRunEnd(s, 0)
    IN  IF a = Len(s) THEN <<>> ELSE Slice(s, a, SpaceRunStart(s, Len(s)))

IsSentenceEnd(c) == c \in {".", "!", "?"}
\* SENT_SPLIT.split(s): cut at every run of spaces that follows . ! or ?
\* (from is where the piece being read starts, i the offset being looked at)
RECURSIVE SplitFrom(_, _, _)
SplitFrom(s, from, i) ==
    IF i >= Len(s) THEN <<Slice(s, from, Len(s))>>
    ELSE IF i > 0 /\ IsSentenceEnd(At(s, i - 1)) /\ IsSpace(At(s, i))
         THEN <<Slice(s, from, i)>> \o SplitFrom(s, SpaceRunEnd(s, i), SpaceRunEnd(s, i))
         ELSE SplitFrom(s, from, i + 1)
SentSplit(s) == SplitFrom(s, 0, 0)

\* the sentences of a text (src/app.py:226)
Sentences(txt) ==
    LET stripped == Strip(txt)
    IN  IF stripped # <<>> THEN SentSplit(stripped) ELSE <<>>

\* the offsets loop (src/app.py:227-234): offsets of sentences k.. from pos on
RECURSIVE SentenceOffsets(_, _, _, _)
SentenceOffsets(txt, sentences, k, pos) ==
    IF k > Len(sentences) THEN <<>>
    ELSE LET found == Find(txt, sentences[k], pos)
             start == IF found = -1 THEN pos ELSE found
         IN  <<start>> \o SentenceOffsets(txt, sentences, k + 1, start + Len(sentences[k]))

IsLetter(c) == c \in Letters
IsJoiner(c) == c \in {"'", RQuote, "-"}
RECURSIVE LetterRunEnd(_, _)
LetterRunEnd(s, i) ==
    IF i < Len(s) /\ IsLetter(At(s, i)) THEN LetterRunEnd(s, i + 1) ELSE i
\* the end of the token TOKEN_RE matches at offset i (a letter starts there):
\* a run of letters, then at most one joiner followed by a run of letters
TokenEnd(s, i) ==
    LET j == LetterRunEnd(s, i)
    IN  IF j + 1 < Len(s) /\ IsJoiner(At(s, j)) /\ IsLetter(At(s, j + 1))
        THEN LetterRunEnd(s, j + 1)
        ELSE j
\* TOKEN_RE.finditer(s) from offset i: the list of <<start, end>>
RECURSIVE Tokens(_, _)
Tokens(s, i) ==
    IF i >= Len(s) THEN <<>>
    ELSE IF IsLetter(At(s, i)) THEN <<<<i, TokenEnd(s, i)>>>> \o Tokens(s, TokenEnd(s, i))
    ELSE Tokens(s, i + 1)

\* get_sentence_context: the loop over the pieces k.. of the unstripped text
RECURSIVE ContextFrom(_, _, _, _, _)
ContextFrom(txt, parts, k, pos, idx) ==
    IF k > Len(parts) THEN Strip(txt)
    ELSE IF pos <= idx /\ idx <= pos + Len(parts[k]) THEN Strip(parts[k])
    ELSE ContextFrom(txt, parts, k + 1, pos + Len(parts[k]) + 1, idx)
get_sentence_context(txt, idx) == ContextFrom(txt, SentSplit(txt), 1, 0, idx)

(***************************************************************************)
(* detect_candidates                                                       *)
(***************************************************************************)
\* str.split(): the maximal runs of non-space characters, from offset i on
RECURSIVE Words(_, _)
Words(s, i) ==
    IF i >= Len(s) THEN {}
    ELSE IF IsSpace(At(s, i)) THEN Words(s, i + 1)
    ELSE {Slice(s, i, NonSpaceRunEnd(s, i))} \cup Words(s, NonSpaceRunEnd(s, i))

\* re.finditer(re.escape(ph), s) from pos: the starts of the matches
RECURSIVE PhraseStarts(_, _, _)
PhraseStarts(ph, s, pos) ==
    LET a == Find(s, ph, pos)
    IN  IF a = -1 THEN {} ELSE {a} \cup PhraseStarts(ph, s, a + Len(ph))

\* the phrase's own whitelist test (src/app.py:211)
PhraseWhitelisted(ph, wl) == \E w \in Words(ph, 0) : w \in wl

\* Where the phrase pass takes the candidate's text from.  The offsets a, b
\* are offsets into lower_text; the code slices the text itself with them.
PhraseOriginal(txt, a, b) == Slice(txt, a, b)

\* 1) the phrase pass (src/app.py:200-223)
PhraseCandidates(txt, level, wl) ==
    LET protected == protect_spans(txt)
        lower_text == Lower(txt)
    IN  {[id |-> <<"ph", a, a + Len(ph)>>,
          original |-> PhraseOriginal(txt, a, a + Len(ph)),
          foreign_norm |-> ph,
          start |-> a,
          end |-> a + Len(ph),
          context |-> get_sentence_context(txt, a),
          root |-> ph,
          suffix |-> <<>>] :
            <<ph, a>> \in {x \in UNION {{<<q, h>> : h \in PhraseStarts(q, lower_text, 0)} :
                                        q \in {r \in PHRASES : level_allows(r, level)}} :
                              /\ ~in_protected(x[2], x[2] + Len(x[1]), protected)
                              /\ ~PhraseWhitelisted(x[1], wl)}}

\* the whitelist test of the word pass (src/app.py:246)
WordWhitelisted(tok, wl) ==
    tok \in wl \/ normalize_token(tok) \in {normalize_token(w) : w \in wl}

\* the lexicon test of the word pass (src/app.py:257-261): <<>> stands for None
LexiconHit(norm, root) ==
    IF norm \in FOREIGN_TERMS THEN norm
    ELSE IF root \in FOREIGN_TERMS THEN root
    ELSE <<>>

\* the body of the word pass for the token tk = <<start, end>> of index ti
\* (0-based) of the sentence s found at offset base: the set of its one
\* candidate, or the empty set when the loop continues (src/app.py:239-278)
WordCandidate(s, base, tk, ti, level, wl, protected) ==
    LET tok == Slice(s, tk[1], tk[2])
        a == base + tk[1]
        b == base + tk[2]
        norm == normalize_token(tok)
        split == split_root_suffix(norm)
        hit == LexiconHit(norm, split[1])
    IN  IF in_protected(a, b, protected) THEN {}
        ELSE IF WordWhitelisted(tok, wl) THEN {}
        ELSE IF is_all_caps(tok) THEN {}
        ELSE IF looks_like_proper_noun(tok, ti) THEN {}
        ELSE IF hit = <<>> THEN {}
        ELSE IF ~level_allows(hit, level) THEN {}
        ELSE {[id |-> <<"w", a, b>>,
               original |-> tok,
               foreign_norm |-> hit,
               start |-> a,
               end |-> b,
               context |-> s,
               root |-> split[1],
               suffix |-> split[2]]}

\* the word pass over one sentence
SentenceCandidates(s, base, level, wl, protected) ==
    LET toks == Tokens(s, 0)
    IN  UNION {WordCandidate(s, base, toks[ti], ti - 1, level, wl, protected) :
                  ti \in 1..Len(toks)}

\* 2) the word pass (src/app.py:225-278)
WordCandidates(txt, level, wl) ==
    LET protected == protect_spans(txt)
        sentences == Sentences(txt)
        offsets == SentenceOffsets(txt, sentences, 1, 0)
    IN  UNION {SentenceCandidates(sentences[si], offsets[si], level, wl, protected) :
                  si \in 1..Len(sentences)}

\* The sort key (c.start, -(c.end - c.start)).  The sort is stable and the
\* phrase hits are pooled first, so a phrase hit precedes a word hit of the
\* same key.
SortsBefore(c, d) ==
    \/ c.start < d.start
    \/ c.start = d.start /\ c.end - c.start > d.end - d.start
    \/ c.start = d.start /\ c.end - c.start = d.end - d.start
          /\ c.id[1] = "ph" /\ d.id[1] = "w"

RECURSIVE SortCandidates(_)
SortCandidates(cands) ==
    IF cands = {} THEN <<>>
    ELSE LET first == CHOOSE c \in cands : \A d \in cands : ~SortsBefore(d, c)
         IN  <<first>> \o SortCandidates(cands \ {first})

\* a slip in the overlap test: the candidate's end is compared, not its start
AcceptsComparingEnd(c, last_end) == ~(c.end < last_end)

\* whether the overlap scan keeps a candidate (src/app.py:285)
Accepts(c, last_end) == ~(c.start < last_end)

\* the overlap scan over the sorted list from index k on (src/app.py:282-289)
RECURSIVE FilterOverlaps(_, _, _)
FilterOverlaps(sorted, k, last_end) ==
    IF k > Len(sorted) THEN <<>>
    ELSE IF Accepts(sorted[k], last_end)
         THEN <<sorted[k]>> \o FilterOverlaps(sorted, k + 1, sorted[k].end)
         ELSE FilterOverlaps(sorted, k + 1, last_end)

\* cands, as it is when both passes are done (src/app.py:198-278)
PooledCandidates(txt, level, wl) ==
    PhraseCandidates(txt, level, wl) \cup WordCandidates(txt, level, wl)

detect_candidates(txt, level, wl) ==
    FilterOverlaps(SortCandidates(PooledCandidates(txt, level, wl)), 1, -1)

(***************************************************************************)
(* The detector's specification: a text and a whitelist are given, and the *)
(* text is analysed at each level.                                         *)
(***************************************************************************)
\* the most pieces a text is made of
MaxPieces == 3
\* the pieces texts are put together from
Pieces == {<<"b","i","g"," ","d","a","t","a">>, <<" ">>, <<"s","e","t">>, <<"t","e","s","t">>,
           <<DottedI>>, <<".", "\r">>, <<"D","a","t","a">>, <<"l","a","r">>,
           <<"h","t","t","p",":","/","/">>}
\* the whitelists the detector is run with
Whitelists == {{}, {<<"b","i","g"," ","d","a","t","a">>, <<"s","e","t">>}}

RECURSIVE Concat(_)
Concat(ps) == IF ps = <<>> THEN <<>> ELSE Head(ps) \o Concat(Tail(ps))
Texts == {Concat(ps) : ps \in UNION {[1..k -> Pieces] : k \in 0..MaxPieces}}

NoPrefs == <<>>

\* with no data file the detector finds nothing, whatever the text is: the
\* texts of one piece are tried
InitDetect ==
    /\ \/ NoData /\ whitelist = {} /\ text \in Pieces
       \/ /\ FOREIGN_TERMS = LexiconTerms /\ SUGGESTIONS = LexiconSuggestions
          /\ whitelist \in Whitelists
          /\ text \in Texts
    /\ results = [l \in Levels |-> NotRun]
    /\ prefs = NoPrefs /\ prefs0 = NoPrefs
    /\ calls = <<>> /\ submitted = NoPrefs /\ made = 0 /\ lock = NoCaller
    /\ original = <<>> /\ suggestion = <<>> /\ cased = NotRun
    /\ choices = <<>> /\ response = NotRun /\ request = NoRequest
    /\ base_suggestions = <<>> /\ ranked = NotRun

\* detect_candidates(text, level)
Detect(level) ==
    /\ ~results[level].ran
    /\ results' = [results EXCEPT ![level] = Ran(detect_candidates(text, level, whitelist))]
    /\ UNCHANGED <<FOREIGN_TERMS, SUGGESTIONS, text, whitelist, prefs, prefs0, calls, submitted, made, lock,
                   original, suggestion, cased, choices, response, request, base_suggestions, ranked>>

NextDetect == \E level \in Levels : Detect(level)

SpecDetect == InitDetect /\ [][NextDetect]_vars

(***************************************************************************)
(* The detector's properties                                               *)
(***************************************************************************)
Disjoint(cs) == \A i, j \in 1..Len(cs) : i < j => cs[i].end <= cs[j].start

\* C1: the list detect_candidates returns is pairwise disjoint and ordered by
\* position: for output positions i < j, candidates[i].end <= candidates[j].start,
\* at every level and for every mix of phrase and word hits.
C1_PairwiseDisjoint == \A l \in Levels : results[l].ran => Disjoint(results[l].value)

\* C1's case: a returned list that holds a phrase hit and a word hit, out of a
\* pool from which the overlap scan dropped both a phrase hit and a word hit.
C1_Witness ==
    \E l \in Levels :
        /\ results[l].ran
        /\ \E i, j \in 1..Len(results[l].value) :
              results[l].value[i].id[1] = "ph" /\ results[l].value[j].id[1] = "w"
        /\ \E c, d \in PooledCandidates(text, l, whitelist) \ Range(results[l].value) :
              c.id[1] = "ph" /\ d.id[1] = "w"

\* C2: every returned candidate has 0 <= start < end <= len(text) and
\* text[start:end] == original.
C2_SpansInText ==
    \A l \in Levels : results[l].ran =>
        \A i \in 1..Len(results[l].value) :
            LET c == results[l].value[i]
            IN  /\ 0 <= c.start /\ c.start < c.end /\ c.end <= Len(text)
                /\ Slice(text, c.start, c.end) = c.original

\* equal up to case
EqualIgnoringCase(x, y) == Lower(x) = Lower(y)

\* C3: no returned candidate's original text equals a whitelist entry up to
\* case, for word hits and for phrase hits alike.
C3_WhitelistExcluded ==
    \A l \in Levels : results[l].ran =>
        \A i \in 1..Len(results[l].value) :
            \A w \in whitelist : ~EqualIgnoringCase(results[l].value[i].original, w)

CandidateKeys(cs) == {<<cs[i].start, cs[i].end, cs[i].foreign_norm>> : i \in 1..Len(cs)}

\* C4: for one text, the candidates returned at strict include those returned
\* at balanced, which include those returned at light.
C4_LevelMonotone ==
    (\A l \in Levels : results[l].ran) =>
        /\ CandidateKeys(results["light"].value) \subseteq CandidateKeys(results["balanced"].value)
        /\ CandidateKeys(results["balanced"].value) \subseteq CandidateKeys(results["strict"].value)

\* The tokens C9 speaks of, as <<start, end, term>>: a lowercase token of the
\* text, neither whitelisted nor protected nor itself in the lexicon, that is
\* a single-word lexicon term the level allows followed by one listed ending.
SuffixedTermTokens(txt, level, wl) ==
    {<<tk[1], tk[2], term>> :
        <<tk, term>> \in
            {x \in Range(Tokens(txt, 0)) \X {t \in FOREIGN_TERMS : ~HasSpace(t)} :
                LET tok == Slice(txt, x[1][1], x[1][2])
                IN  /\ Lower(tok) = tok
                    /\ ~WordWhitelisted(tok, wl)
                    /\ ~in_protected(x[1][1], x[1][2], protect_spans(txt))
                    /\ tok \notin FOREIGN_TERMS
                    /\ level_allows(x[2], level)
                    /\ \E k \in 1..Len(SuffixAlternatives) : tok = x[2] \o SuffixAlternatives[k]}}

\* C9: such a token is split into the term and a non-empty suffix, and the
\* word pass reports it as a candidate whose foreign_norm is the term.
C9_SuffixedTermDetected ==
    \A l \in Levels : results[l].ran =>
        \A t \in SuffixedTermTokens(text, l, whitelist) :
            /\ split_root_suffix(Slice(text, t[1], t[2]))[2] # <<>>
            /\ \E c \in WordCandidates(text, l, whitelist) :
                  /\ c.start = t[1] /\ c.end = t[2] /\ c.foreign_norm = t[3]
                  /\ c.root \o c.suffix = Slice(text, t[1], t[2])

(***************************************************************************)
(* The preference store: the prefs table, db_add_score and db_get_scores.  *)
(* A key is <<user_id, foreign_term, suggestion, context_tag>>, the        *)
(* table's primary key (src/app.py:100).                                   *)
(***************************************************************************)
\* the callers that call db_add_score at the same time
NumCallers == 2
\* the calls made in all
MaxCalls == 3
Callers == 1..NumCallers

Veri == <<"v","e","r","i">>
Bilgi == <<"b","i","l","g","i">>
Data == <<"d","a","t","a">>
Users == {"default", "u2"}
StoreKeys == {<<"default", Data, Veri, "akademik">>,
              <<"default", Data, Bilgi, "akademik">>,
              <<"u2", Data, Veri, "akademik">>}
\* the deltas the handlers submit: +2 for a chosen, -1 for a rejected suggestion
Deltas == {2, -1}
\* the tables the store starts from
InitialTables == {NoPrefs, (<<"default", Data, Veri, "akademik">> :> 3)}

\* The score the upsert reads: `score = score + excluded.score` is evaluated
\* inside the statement, on the table as it is when the statement runs, not on
\* what the connection could have read earlier.
ReadBeforeStatement(current, earlier) == earlier
ScoreSource(current, earlier) == current

\* the row db_add_score's statement leaves for the key (src/app.py:109-114):
\* the delta when there is no row, the row's score plus the delta otherwise
UpsertScore(table, key, delta) ==
    IF key \in DOMAIN table THEN table[key] + delta ELSE delta

\* the table with the row written
WithRow(table, key, score) == [k \in DOMAIN table \cup {key} |-> IF k = key THEN score ELSE table[k]]

\* db_get_scores: suggestion -> score, for the rows of the user, term and tag
db_get_scores(table, user_id, foreign_term, context_tag) ==
    [s \in {k[3] : k \in {x \in DOMAIN table :
                            x[1] = user_id /\ x[2] = foreign_term /\ x[4] = context_tag}}
        |-> table[<<user_id, foreign_term, s, context_tag>>]]

\* the rows of a table among the given keys
Rows(table, keys) == [k \in DOMAIN table \cap keys |-> table[k]]

NoKey == <<>>
Idle == [pc |-> "idle", key |-> NoKey, delta |-> 0, earlier |-> NoPrefs, score |-> 0]

InitStore ==
    /\ NoData
    /\ prefs0 \in InitialTables
    /\ prefs = prefs0
    /\ calls = [c \in Callers |-> Idle]
    /\ submitted = NoPrefs
    /\ made = 0
    /\ lock = NoCaller
    /\ text = <<>> /\ whitelist = {} /\ results = <<>>
    /\ original = <<>> /\ suggestion = <<>> /\ cased = NotRun
    /\ choices = <<>> /\ response = NotRun /\ request = NoRequest
    /\ base_suggestions = <<>> /\ ranked = NotRun

StoreUnchanged ==
    UNCHANGED <<FOREIGN_TERMS, SUGGESTIONS, text, whitelist, results, prefs0, original, suggestion, cased,
                choices, response, request, base_suggestions, ranked>>

\* db_add_score is called and connects (src/app.py:106-108); earlier is
\* the key's row as a read made now would find it
Connect(c, key, delta) ==
    /\ calls[c].pc = "idle"
    /\ made < MaxCalls
    /\ made' = made + 1
    /\ calls' = [calls EXCEPT ![c] = [pc |-> "connected", key |-> key, delta |-> delta,
                                      earlier |-> Rows(prefs, {key}), score |-> 0]]
    /\ UNCHANGED <<prefs, submitted, lock>>
    /\ StoreUnchanged

\* cur.execute (src/app.py:109-114): the statement opens a transaction, takes
\* the database's write lock and runs the upsert; the row is the connection's
\* own until it commits
Execute(c) ==
    /\ calls[c].pc = "connected"
    /\ lock = NoCaller
    /\ lock' = c
    /\ calls' = [calls EXCEPT ![c].pc = "executed",
                              ![c].score = UpsertScore(ScoreSource(prefs, calls[c].earlier),
                                                       calls[c].key, calls[c].delta)]
    /\ UNCHANGED <<prefs, submitted, made>>
    /\ StoreUnchanged

\* cur.execute raises: another connection held the write lock for as long as
\* the connection waits (sqlite3.connect's timeout); the call changes nothing
ExecuteRaises(c) ==
    /\ calls[c].pc = "connected"
    /\ lock \notin {NoCaller, c}
    /\ calls' = [calls EXCEPT ![c] = Idle]
    /\ UNCHANGED <<prefs, submitted, lock, made>>
    /\ StoreUnchanged

\* con.commit() and con.close() (src/app.py:115-116): the row is written, the
\* lock released, and the call returns: its delta counts as submitted
Commit(c) ==
    /\ calls[c].pc = "executed"
    /\ prefs' = WithRow(prefs, calls[c].key, calls[c].score)
    /\ lock' = NoCaller
    /\ submitted' = WithRow(submitted, calls[c].key,
                            UpsertScore(submitted, calls[c].key, calls[c].delta))
    /\ calls' = [calls EXCEPT ![c] = Idle]
    /\ UNCHANGED made
    /\ StoreUnchanged

\* con.commit() raises (the store fails): the transaction is rolled back when
\* the connection is dropped, and the call changes nothing
CommitRaises(c) ==
    /\ calls[c].pc = "executed"
    /\ lock' = NoCaller
    /\ calls' = [calls EXCEPT ![c] = Idle]
    /\ UNCHANGED <<prefs, submitted, made>>
    /\ StoreUnchanged

NextStore ==
    \E c \in Callers :
        \/ \E key \in StoreKeys, delta \in Deltas : Connect(c, key, delta)
        \/ Execute(c)
        \/ ExecuteRaises(c)
        \/ Commit(c)
        \/ CommitRaises(c)

SpecStore == InitStore /\ [][NextStore]_vars

\* the score db_get_scores reports for a key, 0 when it reports none
ReportedScore(table, key) ==
    LET scores == db_get_scores(table, key[1], key[2], key[4])
    IN  IF key[3] \in DOMAIN scores THEN scores[key[3]] ELSE 0
Reported(table, key) == key[3] \in DOMAIN db_get_scores(table, key[1], key[2], key[4])

\* C5: no update is lost, whatever the interleaving: the score db_get_scores
\* reports for a key is the score the key started with (0 if it had no row)
\* plus the deltas of all calls made for that key that went through; a key no
\* call scored and that had no row is not reported; no row is ever removed.
C5_NoLostUpdate ==
    \A key \in StoreKeys :
        /\ ReportedScore(prefs, key) =
              ReportedScore(prefs0, key) + ReportedScore(submitted, key)
        /\ Reported(prefs, key) <=> (key \in DOMAIN prefs0 \/ key \in DOMAIN submitted)

\* C5's case: a call for a key has run its statement after another call for
\* the same key went through, having connected before that call committed.
C5_Witness ==
    \E c \in Callers :
        /\ calls[c].pc = "executed"
        /\ calls[c].key \in DOMAIN submitted
        /\ calls[c].earlier # Rows(prefs, {calls[c].key})
        /\ calls[c].score = ReportedScore(prefs0, calls[c].key)
                              + submitted[calls[c].key] + calls[c].delta

(***************************************************************************)
(* preserve_casing on its own: an original and a suggestion are given and  *)
(* the function is applied.                                                *)
(***************************************************************************)
\* the longest original
MaxOriginalLen == 2
CasingChars == {"A", "b", DottedI, "-", "U+00C9"}
Originals == UNION {[1..n -> CasingChars] : n \in 0..MaxOriginalLen}
ChosenSuggestions == {<<>>, Veri, <<DotlessI, "b">>, <<"V", "e">>, <<"U+00DF", "U+00E9">>}

InitCasing ==
    /\ NoData
    /\ original \in Originals
    /\ suggestion \in ChosenSuggestions
    /\ cased = NotRun
    /\ text = <<>> /\ whitelist = {} /\ results = <<>>
    /\ prefs = NoPrefs /\ prefs0 = NoPrefs
    /\ calls = <<>> /\ submitted = NoPrefs /\ made = 0 /\ lock = NoCaller
    /\ choices = <<>> /\ response = NotRun /\ request = NoRequest
    /\ base_suggestions = <<>> /\ ranked = NotRun

PreserveCasing ==
    /\ ~cased.ran
    /\ cased' = Ran(preserve_casing(original, suggestion))
    /\ UNCHANGED <<FOREIGN_TERMS, SUGGESTIONS, text, whitelist, results, prefs, prefs0, calls, submitted, made, lock,
                   original, suggestion, choices, response, request, base_suggestions, ranked>>

NextCasing == PreserveCasing

SpecCasing == InitCasing /\ [][NextCasing]_vars

\* C6: the suggestion comes back fully uppercased exactly when the original is
\* all uppercase and at least two characters long; otherwise with its first
\* character uppercased when the original's first character is uppercase;
\* otherwise unchanged.  A one-character uppercase original gets the second rule.
C6_CasingRule ==
    cased.ran =>
        cased.value =
            IF IsUpper(original) /\ Len(original) >= 2 THEN Upper(suggestion)
            ELSE IF IsUpper(Slice(original, 0, 1))
                 THEN Upper(Slice(suggestion, 0, 1)) \o SliceFrom(suggestion, 1)
                 ELSE suggestion

(***************************************************************************)
(* rank_suggestions: a table and a base list are given and the list is     *)
(* ranked for one user, term and context tag.                              *)
(***************************************************************************)
\* the longest base list
MaxBase == 3
Malumat == <<"m","a","l","u","m","a","t">>
RankSuggestions == {Veri, Bilgi, Malumat}
RankKey(s) == <<"default", Data, s, "akademik">>
\* rows of another user and of another tag, which the ranking must not read
OtherRows == (<<"u2", Data, Veri, "akademik">> :> 4) @@ (<<"default", Data, Bilgi, "kurumsal">> :> 7)
RankTables ==
    {[k \in DOMAIN OtherRows \cup {RankKey(s) : s \in scored} |->
         IF k \in DOMAIN OtherRows THEN OtherRows[k]
         ELSE IF k \in {RankKey(s) : s \in liked} THEN 2 ELSE -1] :
        <<scored, liked>> \in {x \in (SUBSET RankSuggestions) \X (SUBSET RankSuggestions) :
                                 x[2] \subseteq x[1]}}
BaseLists == UNION {[1..n -> RankSuggestions] : n \in 0..MaxBase}

\* the index of a largest score taken last: what sorting upwards and
\* reversing the list would give
LastLargest(items) ==
    Max({i \in 1..Len(items) : \A j \in 1..Len(items) : items[j].score <= items[i].score})

\* the item a stable sort by score, largest first, puts first: of the items
\* of the largest score, the earliest
FirstLargest(items) ==
    Min({i \in 1..Len(items) : \A j \in 1..Len(items) : items[j].score <= items[i].score})

\* items.sort(key=score, reverse=True) (src/app.py:305)
RECURSIVE SortByScore(_)
SortByScore(items) ==
    IF items = <<>> THEN <<>>
    ELSE LET i == FirstLargest(items)
         IN  <<items[i]>> \o
             SortByScore(SubSeq(items, 1, i - 1) \o SubSeq(items, i + 1, Len(items)))

rank_suggestions(table, user_id, foreign_norm, base, context_tag) ==
    LET scores == db_get_scores(table, user_id, foreign_norm, context_tag)
        items == [i \in 1..Len(base) |->
                    [suggestion |-> base[i],
                     score |-> IF base[i] \in DOMAIN scores THEN scores[base[i]] ELSE 0]]
    IN  SortByScore(items)

InitRank ==
    /\ NoData
    /\ prefs \in RankTables
    /\ prefs0 = prefs
    /\ base_suggestions \in BaseLists
    /\ ranked = NotRun
    /\ text = <<>> /\ whitelist = {} /\ results = <<>>
    /\ calls = <<>> /\ submitted = NoPrefs /\ made = 0 /\ lock = NoCaller
    /\ original = <<>> /\ suggestion = <<>> /\ cased = NotRun
    /\ choices = <<>> /\ response = NotRun /\ request = NoRequest

Rank ==
    /\ ~ranked.ran
    /\ ranked' = Ran(rank_suggestions(prefs, "default", Data, base_suggestions, "akademik"))
    /\ UNCHANGED <<FOREIGN_TERMS, SUGGESTIONS, text, whitelist, results, prefs, prefs0, calls, submitted, made, lock,
                   original, suggestion, cased, choices, response, request, base_suggestions>>

NextRank == Rank

SpecRank == InitRank /\ [][NextRank]_vars

\* the score stored for a suggestion of the ranked user, term and tag, or 0
StoredScore(s) == IF RankKey(s) \in DOMAIN prefs THEN prefs[RankKey(s)] ELSE 0
Count(seq, x) == Cardinality({i \in 1..Len(seq) : seq[i] = x})
Suggestions(items) == [i \in 1..Len(items) |-> items[i].suggestion]
\* the suggestions of a list whose stored score is v, in the list's order
OfScore(seq, v) == LET has(s) == StoredScore(s) = v IN SelectSeq(seq, has)

\* C10: rank_suggestions returns one item per element of the base list (the
\* same suggestions as often), each with its stored score or 0, in order of
\* score, largest first, items of one score in the base list's order; when all
\* scores are equal the ranked order is the base order.
C10_RankedOrder ==
    ranked.ran =>
        LET r == ranked.value
        IN  /\ Len(r) = Len(base_suggestions)
            /\ \A s \in RankSuggestions : Count(Suggestions(r), s) = Count(base_suggestions, s)
            /\ \A i \in 1..Len(r) : r[i].score = StoredScore(r[i].suggestion)
            /\ \A i, j \in 1..Len(r) : i < j => r[i].score >= r[j].score
            /\ \A v \in {-1, 0, 2} : OfScore(Suggestions(r), v) = OfScore(base_suggestions, v)
            /\ (\A i, j \in 1..Len(r) : r[i].score = r[j].score)
                  => Suggestions(r) = base_suggestions

\* C10's case: a ranked list in which a later base element overtook an earlier
\* one, and two different suggestions of one score kept their order.
C10_Witness ==
    /\ ranked.ran
    /\ Suggestions(ranked.value) # base_suggestions
    /\ \E i, j \in 1..Len(ranked.value) :
          /\ i < j
          /\ ranked.value[i].score = ranked.value[j].score
          /\ ranked.value[i].suggestion # ranked.value[j].suggestion

(***************************************************************************)
(* The handlers: analyze and apply.  A handler runs in steps: every read   *)
(* of the table (one db_get_scores per candidate) and every write (one     *)
(* db_add_score per piece of feedback, each with its own connection and    *)
(* commit) is a step of its own, and other requests' writes come between.  *)
(***************************************************************************)
\* one element of analyze's results (src/app.py:357-369), ranked on the
\* table as it is when the candidate's db_get_scores runs
Item(c, table, user_id, context_tag) ==
    [id |-> c.id,
     original |-> c.original,
     foreign_norm |-> c.foreign_norm,
     start |-> c.start,
     end |-> c.end,
     context |-> c.context,
     suggestions |->
         rank_suggestions(table, user_id, c.foreign_norm,
                          IF c.foreign_norm \in DOMAIN SUGGESTIONS
                          THEN SUGGESTIONS[c.foreign_norm] ELSE <<>>,
                          context_tag)]

\* analyze's return value (src/app.py:371-377)
Analyzed(items, level) ==
    [items |-> items,
     report |-> [candidates_found |-> Len(items),
                 unique_foreign_terms |->
                     Cardinality({items[i].foreign_norm : i \in 1..Len(items)}),
                 level |-> level]]

\* a choice's chosen: None, or a string
NoneChosen == [given |-> FALSE, value |-> <<>>]
Chosen(sugg) == [given |-> TRUE, value |-> sugg]
\* `if ch.chosen:` (src/app.py:400): neither None nor the empty string
HasChosen(ch) == ch.chosen.given /\ ch.chosen.value # <<>>

\* a rejected string scored whatever it is
AnyRejectedScored(r) == TRUE
\* `if r:` (src/app.py:396): an empty rejected string is not scored
RejectedScored(r) == r # <<>>

\* items.get(candidate_id): the items of that id (src/app.py:382, 387)
ItemsOfId(items, id) == {i \in 1..Len(items) : items[i].id = id}
\* the item of choice ch (src/app.py:387); the dict keeps the last of an id
ItemOf(items, ch) == items[Max(ItemsOfId(items, ch.candidate_id))]

\* A place in apply's loops is <<k, j>>: choice k, and in it the rejected
\* string j, or the chosen when j is one more than the rejected strings are.
\* The first place from <<k, j>> on where db_add_score is called
\* (src/app.py:386-401); k is past the choices when there is none.
RECURSIVE NextCall(_, _, _, _)
NextCall(items, chs, k, j) ==
    IF k > Len(chs) THEN <<k, 1>>
    ELSE IF ItemsOfId(items, chs[k].candidate_id) = {} THEN NextCall(items, chs, k + 1, 1)
    ELSE IF j <= Len(chs[k].rejected)
         THEN IF RejectedScored(chs[k].rejected[j]) THEN <<k, j>>
              ELSE NextCall(items, chs, k, j + 1)
    ELSE IF j = Len(chs[k].rejected) + 1 /\ HasChosen(chs[k]) THEN <<k, j>>
    ELSE NextCall(items, chs, k + 1, 1)

\* the key and the delta of the db_add_score call at a place
\* (src/app.py:397, 401)
CallAt(it, ch, j, user_id, context_tag) ==
    IF j <= Len(ch.rejected)
    THEN [key |-> <<user_id, it.foreign_norm, ch.rejected[j], context_tag>>, delta |-> -1]
    ELSE [key |-> <<user_id, it.foreign_norm, ch.chosen.value, context_tag>>, delta |-> 2]

\* the replacement of a choice with a chosen (src/app.py:402-403)
Replacement(it, ch) ==
    [start |-> it.start, end |-> it.end, new |-> preserve_casing(it.original, ch.chosen.value)]

\* the replacement sorted(..., key=start, reverse=True) puts first: of those
\* of the largest start, the earliest in the list
FirstLargestStart(reps) ==
    Min({i \in 1..Len(reps) : \A j \in 1..Len(reps) : reps[j].start <= reps[i].start})
RECURSIVE SortByStartDescending(_)
SortByStartDescending(reps) ==
    IF reps = <<>> THEN <<>>
    ELSE LET i == FirstLargestStart(reps)
         IN  <<reps[i]>> \o
             SortByStartDescending(SubSeq(reps, 1, i - 1) \o SubSeq(reps, i + 1, Len(reps)))

\* out[:r.start] + r.new + out[r.end:]
Splice(out, r) == Slice(out, 0, r.start) \o r.new \o SliceFrom(out, r.end)
RECURSIVE SpliceAll(_, _, _)
SpliceAll(out, reps, k) ==
    IF k > Len(reps) THEN out ELSE SpliceAll(Splice(out, reps[k]), reps, k + 1)

apply_replacements(txt, replacements) ==
    SpliceAll(txt, SortByStartDescending(replacements), 1)

\* apply's return value (src/app.py:405-411)
ApplyResult(txt, replacements, report) ==
    [new_text |-> apply_replacements(txt, replacements),
     applied_count |-> Len(replacements),
     report |-> report]

\* what a handler answers: a return value, or the exception a store call raised
Returned(op, body) == Ran([op |-> op, outcome |-> "returned", body |-> body])
Raised(op) == Ran([op |-> op, outcome |-> "raised", body |-> <<>>])

(***************************************************************************)
(* The handlers' specification: a text, a whitelist, a table and a list of *)
(* choices are given and one request is served, while another caller       *)
(* submits feedback of its own.                                            *)
(***************************************************************************)
\* the most choices a request holds
MaxChoices == 2
\* the most db_add_score calls the other caller makes meanwhile
MaxOtherCalls == 1
\* the connections that take the write lock: the handler's, the other caller's
Handler == 1
OtherCaller == 2
RequestTexts == {<<"d","a","t","a">>,
                 <<"D","a","t","a"," ","d","a","t","a">>}
CandidateIds == {<<"w", 0, 4>>, <<"w", 5, 9>>}
ChoiceSet == [candidate_id : CandidateIds,
              chosen : {NoneChosen, Chosen(<<>>), Chosen(Bilgi)},
              rejected : {<<<<>>, Veri>>}]
ChoiceLists == UNION {[1..n -> ChoiceSet] : n \in 0..MaxChoices}
\* the feedback the other caller submits
OtherCalls == {[key |-> <<"default", Data, Bilgi, "akademik">>, delta |-> 2]}

InitHandlers ==
    /\ LoadData
    /\ text \in RequestTexts
    /\ whitelist = {}
    /\ choices \in ChoiceLists
    /\ prefs0 \in InitialTables
    /\ prefs = prefs0
    /\ response = NotRun
    /\ request = NoRequest
    /\ calls = Idle
    /\ submitted = NoPrefs /\ made = 0 /\ lock = NoCaller
    /\ results = <<>>
    /\ original = <<>> /\ suggestion = <<>> /\ cased = NotRun
    /\ base_suggestions = <<>> /\ ranked = NotRun

\* what no step of a handler or caller changes
HandlersUnchanged ==
    UNCHANGED <<FOREIGN_TERMS, SUGGESTIONS, text, whitelist, results, prefs0, original, suggestion, cased,
                choices, base_suggestions, ranked>>

\* a request is received: analyze detects the candidates (src/app.py:354);
\* apply starts by calling analyze (src/app.py:381)
Receive(op, level) ==
    /\ request.pc = "none"
    /\ request' = [NoRequest EXCEPT !.pc = "rank", !.op = op, !.level = level,
                                    !.cands = detect_candidates(text, level, whitelist),
                                    !.k = 1, !.j = 1]
    /\ UNCHANGED <<prefs, response, calls, submitted, made, lock>>
    /\ HandlersUnchanged

\* POST /analyze
Analyze(level) == Receive("analyze", level)
\* POST /apply
Apply(level) == Receive("apply", level)

\* analyze's loop body for the next candidate (src/app.py:357-369):
\* rank_suggestions reads the table through a connection of its own
RankCandidate ==
    /\ request.pc = "rank"
    /\ Len(request.items) < Len(request.cands)
    /\ request' = [request EXCEPT !.items =
                      Append(@, Item(request.cands[Len(request.items) + 1],
                                     prefs, "default", "akademik"))]
    /\ UNCHANGED <<prefs, response, calls, submitted, made, lock>>
    /\ HandlersUnchanged

\* rank_suggestions raises: db_get_scores (src/app.py:119-126) could not read
\* the table, because another connection held it locked for as long as this
\* one waits, or because the store failed.  Neither analyze nor apply, which
\* is in its call of analyze (src/app.py:381), catches it: the request ends.
RankCandidateRaises ==
    /\ request.pc = "rank"
    /\ Len(request.items) < Len(request.cands)
    /\ response' = Raised(request.op)
    /\ request' = [request EXCEPT !.pc = "done"]
    /\ UNCHANGED <<prefs, calls, submitted, made, lock>>
    /\ HandlersUnchanged

\* every candidate is ranked
RankedAll == request.pc = "rank" /\ Len(request.items) = Len(request.cands)

\* analyze returns (src/app.py:371-377)
AnalyzeReturns ==
    /\ RankedAll /\ request.op = "analyze"
    /\ response' = Returned("analyze", Analyzed(request.items, request.level))
    /\ request' = [request EXCEPT !.pc = "done"]
    /\ UNCHANGED <<prefs, calls, submitted, made, lock>>
    /\ HandlersUnchanged

\* apply is in its loop over the choices (src/app.py:386-403), analyze
\* having returned
InChoices == request.pc = "choices" \/ (RankedAll /\ request.op = "apply")
\* the place of the next db_add_score call
NextPlace == NextCall(request.items, choices, request.k, request.j)
\* the call db_add_score is running, or is about to run, at place <<k, j>>
CallOf(k, j) ==
    CallAt(ItemOf(request.items, choices[k]), choices[k], j, "default", "akademik")

\* db_add_score's cur.execute for the next piece of feedback
\* (src/app.py:107-114): the statement takes the write lock and runs the upsert
FeedbackExecute ==
    /\ InChoices
    /\ lock = NoCaller
    /\ \E place \in {NextPlace} :
          /\ place[1] <= Len(choices)
          /\ request' = [request EXCEPT
                            !.pc = "executed", !.k = place[1], !.j = place[2],
                            !.score = UpsertScore(prefs, CallOf(place[1], place[2]).key,
                                                  CallOf(place[1], place[2]).delta)]
    /\ lock' = Handler
    /\ UNCHANGED <<prefs, response, calls, submitted, made>>
    /\ HandlersUnchanged

\* cur.execute raises "database is locked": another connection held the write
\* lock for as long as this one waits; apply does not catch it and the
\* request ends, what it has committed so far staying in the table
FeedbackExecuteRaises ==
    /\ InChoices
    /\ lock = OtherCaller
    /\ NextPlace[1] <= Len(choices)
    /\ response' = Raised("apply")
    /\ request' = [request EXCEPT !.pc = "done"]
    /\ UNCHANGED <<prefs, calls, submitted, made, lock>>
    /\ HandlersUnchanged

\* con.commit() and con.close() (src/app.py:115-116), then the rest of the
\* loop body: after the chosen's call, its replacement (src/app.py:402-403)
FeedbackCommit ==
    /\ request.pc = "executed"
    /\ prefs' = WithRow(prefs, CallOf(request.k, request.j).key, request.score)
    /\ lock' = NoCaller
    /\ request' = [request EXCEPT
                      !.pc = "choices", !.j = @ + 1,
                      !.replacements =
                          IF request.j > Len(choices[request.k].rejected)
                          THEN Append(@, Replacement(ItemOf(request.items, choices[request.k]),
                                                     choices[request.k]))
                          ELSE @]
    /\ UNCHANGED <<response, calls, submitted, made>>
    /\ HandlersUnchanged

\* con.commit() raises (the store fails): the row is not written and the
\* request ends
FeedbackCommitRaises ==
    /\ request.pc = "executed"
    /\ lock' = NoCaller
    /\ response' = Raised("apply")
    /\ request' = [request EXCEPT !.pc = "done"]
    /\ UNCHANGED <<prefs, calls, submitted, made>>
    /\ HandlersUnchanged

\* the loop is over: apply returns (src/app.py:405-411)
ApplyReturns ==
    /\ InChoices
    /\ NextPlace[1] > Len(choices)
    /\ response' = Returned("apply",
                            ApplyResult(text, request.replacements,
                                        Analyzed(request.items, request.level).report))
    /\ request' = [request EXCEPT !.pc = "done"]
    /\ UNCHANGED <<prefs, calls, submitted, made, lock>>
    /\ HandlersUnchanged

\* the other caller's db_add_score: cur.execute (src/app.py:107-114)
OtherExecute(call) ==
    /\ calls.pc = "idle"
    /\ made < MaxOtherCalls
    /\ lock = NoCaller
    /\ lock' = OtherCaller
    /\ made' = made + 1
    /\ calls' = [pc |-> "executed", key |-> call.key, delta |-> call.delta,
                 earlier |-> NoPrefs, score |-> UpsertScore(prefs, call.key, call.delta)]
    /\ UNCHANGED <<prefs, response, request, submitted>>
    /\ HandlersUnchanged

\* the other caller's con.commit() and con.close() (src/app.py:115-116)
OtherCommit ==
    /\ calls.pc = "executed"
    /\ prefs' = WithRow(prefs, calls.key, calls.score)
    /\ submitted' = WithRow(submitted, calls.key, UpsertScore(submitted, calls.key, calls.delta))
    /\ lock' = NoCaller
    /\ calls' = Idle
    /\ UNCHANGED <<response, request, made>>
    /\ HandlersUnchanged

NextHandlers ==
    \/ \E level \in Levels : Analyze(level) \/ Apply(level)
    \/ RankCandidate
    \/ RankCandidateRaises
    \/ AnalyzeReturns
    \/ FeedbackExecute
    \/ FeedbackExecuteRaises
    \/ FeedbackCommit
    \/ FeedbackCommitRaises
    \/ ApplyReturns
    \/ \E call \in OtherCalls : OtherExecute(call)
    \/ OtherCommit

SpecHandlers == InitHandlers /\ [][NextHandlers]_vars

(***************************************************************************)
(* Claims about the handlers                                               *)
(***************************************************************************)
\* apply has returned a response
Applied ==
    response.ran /\ response.value.op = "apply" /\ response.value.outcome = "returned"
\* the candidates of the re-analysis of the request's text at its level
Reanalysis == Range(request.cands)
Known(cands, ch) == \E c \in cands : c.id = ch.candidate_id
CandidateOf(cands, ch) == CHOOSE c \in cands : c.id = ch.candidate_id
\* the candidates some choice gives a suggestion for
ChosenSpans(cands) ==
    {c \in cands : \E i \in 1..Len(choices) :
                      choices[i].candidate_id = c.id /\ HasChosen(choices[i])}
\* the casing-preserved suggestions the choices give for a candidate
NewWords(c) == {preserve_casing(c.original, choices[i].chosen.value) :
                  i \in {j \in 1..Len(choices) :
                           choices[j].candidate_id = c.id /\ HasChosen(choices[j])}}
\* txt from offset pos on, with the span of each candidate of spans replaced
\* by new[its id] and the rest left as it is
RECURSIVE ReplaceSpans(_, _, _, _)
ReplaceSpans(txt, pos, spans, new) ==
    IF spans = {} THEN SliceFrom(txt, pos)
    ELSE LET c == CHOOSE x \in spans : \A y \in spans : x.start <= y.start
         IN  Slice(txt, pos, c.start) \o new[c.id]
                \o ReplaceSpans(txt, c.end, spans \ {c}, new)

\* C7: when apply returns, new_text is the request's text in which the span
\* of each candidate with a chosen suggestion is replaced by the
\* casing-preserved suggestion and every other character is kept in place,
\* whatever the order and number of the choices and also when several name
\* one candidate; and applied_count is the number of spans replaced.
C7_ReplacementsKeepOffsets ==
    Applied =>
        LET spans == ChosenSpans(Reanalysis)
        IN  /\ response.value.body.applied_count = Cardinality(spans)
            /\ \E new \in [{c.id : c \in spans} -> UNION {NewWords(c) : c \in spans}] :
                  /\ \A c \in spans : new[c.id] \in NewWords(c)
                  /\ response.value.body.new_text = ReplaceSpans(text, 0, spans, new)

ScoreIn(table, key) == IF key \in DOMAIN table THEN table[key] ELSE 0
\* what the request itself has added to a key's score: the score now, less
\* the score at the start and what the other caller's calls have added
OwnChange(key) == ScoreIn(prefs, key) - ScoreIn(prefs0, key) - ScoreIn(submitted, key)
IsGiven(ch) == ch.chosen.given
\* the choices whose chosen is not None, and those whose chosen is a
\* non-empty string
GivenChoices == {ch \in ChoiceSet : IsGiven(ch)}
NonEmptyChoices == {ch \in ChoiceSet : HasChosen(ch)}
\* The feedback of the request, in the order apply gives it: for each choice
\* of known candidate, from choice i on, a -1 for each non-empty rejected
\* string and then a +2 for the chosen when the choice is one of present.
RejectedFeedback(term, rejected) ==
    LET scored(r) == r # <<>>
        entry(r) == [key |-> <<"default", term, r, "akademik">>, delta |-> -1]
        kept == SelectSeq(rejected, scored)
    IN  [n \in 1..Len(kept) |-> entry(kept[n])]
ChosenFeedback(term, ch, present) ==
    IF ch \in present
    THEN <<[key |-> <<"default", term, ch.chosen.value, "akademik">>, delta |-> 2]>>
    ELSE <<>>
RECURSIVE Feedback(_, _, _)
Feedback(cands, i, present) ==
    IF i > Len(choices) THEN <<>>
    ELSE IF ~Known(cands, choices[i]) THEN Feedback(cands, i + 1, present)
    ELSE RejectedFeedback(CandidateOf(cands, choices[i]).foreign_norm, choices[i].rejected)
            \o ChosenFeedback(CandidateOf(cands, choices[i]).foreign_norm, choices[i], present)
            \o Feedback(cands, i + 1, present)
\* the sum of the deltas the first n entries of a feedback give a key
RECURSIVE DeltaSum(_, _, _)
DeltaSum(feedback, n, key) ==
    IF n = 0 THEN 0
    ELSE DeltaSum(feedback, n - 1, key) + (IF feedback[n].key = key THEN feedback[n].delta ELSE 0)
\* the keys with a row now or at the start (no row is ever removed, so a key
\* that any caller has written is one of them)
StoredKeys == DOMAIN prefs \cup DOMAIN prefs0 \cup DOMAIN submitted
\* the request has done just the first n entries of the feedback: every key's
\* stored or named by the feedback has moved by their deltas, and the table
\* has got no row but theirs and the other caller's
DoneJust(feedback, n) ==
    \A key \in StoredKeys \cup {feedback[m].key : m \in 1..Len(feedback)} :
        /\ OwnChange(key) = DeltaSum(feedback, n, key)
        /\ key \in DOMAIN prefs
              <=> \/ key \in DOMAIN prefs0 \cup DOMAIN submitted
                  \/ \E m \in 1..n : feedback[m].key = key
\* the choices of known candidate, by index
KnownChoices == {i \in 1..Len(choices) : Known(Reanalysis, choices[i])}
\* choices of unknown candidate_id contribute no replacement
UnknownContributeNone == response.value.body.applied_count <= Cardinality(KnownChoices)
\* analyze does not write: whatever it has done, also when it raised, no key
\* has moved by it
AnalyzeWritesNothing == request.op = "analyze" => DoneJust(<<>>, 0)

\* C8 as stated: when apply returns, for each choice naming a candidate of
\* the re-analysis, the key of each non-empty rejected string is decremented
\* by 1 and the key of chosen is incremented by 2 whenever chosen is present
\* (not None); unknown candidate ids and empty rejected strings change no row
\* and contribute no replacement, and neither apply nor analyze modifies
\* another key.
C8_FeedbackWhenChosenPresent ==
    /\ Applied =>
          /\ \E feedback \in {Feedback(Reanalysis, 1, GivenChoices)} :
                DoneJust(feedback, Len(feedback))
          /\ UnknownContributeNone
    /\ AnalyzeWritesNothing

\* C8, amended: as above, with the key of chosen incremented by 2 when chosen
\* is present and not the empty string; an empty chosen string changes no row
\* and contributes no replacement, so applied_count is the number of choices
\* of known candidate with a non-empty chosen.  This is so when apply
\* returns.  While apply runs, and when a store call raises and ends it, it
\* has made the first of these changes only, in the order of the choices
\* and, in a choice, the rejected before the chosen: none of them when the
\* read of the re-analysis raised, and not all of them when a write raised.
C8_Feedback ==
    /\ request.op = "apply" =>
          \E feedback \in {Feedback(Reanalysis, 1, NonEmptyChoices)} :
             /\ \E n \in 0..Len(feedback) : DoneJust(feedback, n)
             /\ Applied =>
                   /\ DoneJust(feedback, Len(feedback))
                   /\ UnknownContributeNone
                   /\ response.value.body.applied_count
                         = Cardinality({i \in KnownChoices : HasChosen(choices[i])})
             /\ (response.ran /\ response.value.outcome = "raised") =>
                   IF Len(request.items) < Len(request.cands)
                   THEN DoneJust(feedback, 0)
                   ELSE \E n \in 0..(Len(feedback) - 1) : DoneJust(feedback, n)
    /\ AnalyzeWritesNothing

\* apply has returned for a request with a choice of known candidate that
\* chooses a suggestion and rejects an empty and a non-empty string, and a
\* choice of unknown candidate that does the same; the other caller has
\* scored the chosen suggestion's key meanwhile
C8_Witness ==
    /\ Applied
    /\ submitted # NoPrefs
    /\ \E i, j \in 1..Len(choices) :
          /\ i \in KnownChoices /\ HasChosen(choices[i]) /\ choices[i].rejected # <<>>
          /\ j \notin KnownChoices /\ HasChosen(choices[j]) /\ choices[j].rejected # <<>>
          /\ OwnChange(<<"default", CandidateOf(Reanalysis, choices[i]).foreign_norm,
                         choices[i].chosen.value, "akademik">>) = 2

====
